---- MODULE Spec2Model ----
(***************************************************************************)
(* A model of the OpenAPI editor's document store (src/lib/openapi/store.ts)*)
(* and of the document validator.                                           *)
(*                                                                         *)
(* Encoding of the TypeScript values:                                      *)
(*   - an object is a record; an optional field that is absent or          *)
(*     undefined is a field the record does not have;                      *)
(*   - a spread {...a, ...b} is  b @@ a  (b's fields win);                  *)
(*   - an array is a sequence;                                             *)
(*   - a Map is the sequence of its entries [k, v] in insertion order;     *)
(*   - NodeIds are strings; generateId() is a choice made by the caller.   *)
(* Objects are values here.  Every in-place write of the store goes to a   *)
(* container that cloneDocument has just created, so no write is visible   *)
(* through another reference.                                              *)
(* Date.now() timestamps of the command log are left out.                  *)
(* The selection and panel fields of the store (selectedSchemaId,          *)
(* selectedRouteId, activeTab, yamlPreviewOpen) are presentation state that*)
(* no document operation reads; they are not part of this model.           *)
(***************************************************************************)
EXTENDS Integers, Sequences, FiniteSets, TLC

VARIABLES document, documentVersion, history, historyIndex, commandLog,
          trace, validation, yamlContent, parseResult, exported,
          documentRef, renderedVersion, initialLoadDone, lastSavedVersion,
          saveTimeout, saving, stored

storeVars == <<document, documentVersion, history, historyIndex, commandLog>>
fileVars == <<yamlContent, parseResult, exported>>
hookVars == <<documentRef, renderedVersion, initialLoadDone, lastSavedVersion,
              saveTimeout, saving, stored>>
vars == <<document, documentVersion, history, historyIndex, commandLog, trace, validation,
          yamlContent, parseResult, exported,
          documentRef, renderedVersion, initialLoadDone, lastSavedVersion,
          saveTimeout, saving, stored>>

(***************************************************************************)
(* Bounds of the model.                                                    *)
(***************************************************************************)
\* structural mutations per session (entries of the command log)
MaxMutations == 2
\* store operations per session (mutations, undos and redos)
MaxOps == 5
\* operations of the history-capacity specification
MaxCapOps == 52
\* the inline nesting depth of the edges of the validated documents
MaxDepth == 2
\* call frames the serializer may nest before the call stack is full
MaxStack == 8

(***************************************************************************)
(* JavaScript containers.                                                  *)
(***************************************************************************)
null == "null"

\* the value read from a hole of a sparse array
EmptySlot == [undefined |-> TRUE]

Entry(k, v) == [k |-> k, v |-> v]

MapHas(m, k) == \E i \in 1..Len(m) : m[i].k = k

MapIndex(m, k) == CHOOSE i \in 1..Len(m) : m[i].k = k

MapGet(m, k) == m[MapIndex(m, k)].v

\* Map.prototype.set: an existing key keeps its position
MapSet(m, k, v) ==
  IF MapHas(m, k) THEN [m EXCEPT ![MapIndex(m, k)] = Entry(k, v)]
  ELSE Append(m, Entry(k, v))

MapDelete(m, k) == SelectSeq(m, LAMBDA e : e.k # k)

MapKeys(m) == {m[i].k : i \in 1..Len(m)}

MapValues(m) == [i \in 1..Len(m) |-> m[i].v]

Has(obj, f) == f \in DOMAIN obj

\* obj.f = undefined
Without(obj, f) == [g \in DOMAIN obj \ {f} |-> obj[g]]

\* const v = x; F(v): x is computed once, whatever F does with it
With(x, F(_)) == CHOOSE y \in {F(v) : v \in {x}} : TRUE

\* Array.prototype.indexOf, 0-based, -1 when absent
indexOf(arr, x) ==
  IF \E i \in 1..Len(arr) : arr[i] = x
  THEN (CHOOSE i \in 1..Len(arr) : arr[i] = x /\ \A j \in 1..(i - 1) : arr[j] # x) - 1
  ELSE -1

includes(arr, x) == \E i \in 1..Len(arr) : arr[i] = x

\* arr.splice(index, 1) for index >= 0
splice1(arr, index) ==
  [i \in 1..(IF index < Len(arr) THEN Len(arr) - 1 ELSE Len(arr)) |->
     IF i <= index THEN arr[i] ELSE arr[i + 1]]

\* arr[index] = x for index >= 0; writing past the end leaves holes
assignAt(arr, index, x) ==
  [i \in 1..(IF index + 1 > Len(arr) THEN index + 1 ELSE Len(arr)) |->
     IF i = index + 1 THEN x ELSE IF i <= Len(arr) THEN arr[i] ELSE EmptySlot]

Last(s) == s[Len(s)]

(***************************************************************************)
(* types.ts: constructors.                                                 *)
(***************************************************************************)
Ref(id) == [kind |-> "ref", targetId |-> id]

Inline(schema) == [kind |-> "inline", schema |-> schema]

createEmptyDocument(id) ==
  [id |-> id,
   info |-> [title |-> "New API", version |-> "1.0.0", description |-> ""],
   servers |-> <<>>, routes |-> <<>>, schemas |-> <<>>,
   securitySchemes |-> <<>>, tags |-> <<>>]

\* createSchema(type, name); ids are the identifiers generateId() returns
\* (ids[1] for the schema, ids[2] for the inline item of an array)
createSchema(ids, type, name) ==
  LET base == IF name = null THEN [id |-> ids[1], type |-> type]
              ELSE [id |-> ids[1], type |-> type, name |-> name]
  IN  IF type = "object" THEN [properties |-> <<>>, required |-> <<>>] @@ base
      ELSE IF type = "array"
        THEN [items |-> Inline([id |-> ids[2], type |-> "string"])] @@ base
      ELSE IF type = "enum" THEN [enumValues |-> <<>>] @@ base
      ELSE IF type \in {"oneOf", "anyOf", "allOf"} THEN [variants |-> <<>>] @@ base
      ELSE base

\* createRoute(path, method); ids[1] for the route, ids[2] for its response
createRoute(ids, path, method) ==
  [id |-> ids[1], path |-> path, method |-> method, tags |-> <<>>,
   parameters |-> <<>>,
   responses |-> <<Entry("200", [id |-> ids[2], description |-> "Successful response"])>>]

(***************************************************************************)
(* store.ts: cloneDocument.                                                *)
(***************************************************************************)
cloneRoute(v) ==
  [parameters |-> [i \in 1..Len(v.parameters) |-> v.parameters[i]],
   responses |-> [i \in 1..Len(v.responses) |-> v.responses[i]],
   tags |-> [i \in 1..Len(v.tags) |-> v.tags[i]]] @@ v

cloneSchema(v) ==
  [f \in {"properties", "required", "enumValues", "variants"} \cap DOMAIN v |->
     [i \in 1..Len(v[f]) |-> v[f][i]]] @@ v

cloneDocument(doc) ==
  [routes |-> [i \in 1..Len(doc.routes) |->
                 Entry(doc.routes[i].k, cloneRoute(doc.routes[i].v))],
   schemas |-> [i \in 1..Len(doc.schemas) |->
                 Entry(doc.schemas[i].k, cloneSchema(doc.schemas[i].v))],
   securitySchemes |-> [i \in 1..Len(doc.securitySchemes) |-> doc.securitySchemes[i]],
   servers |-> [i \in 1..Len(doc.servers) |-> doc.servers[i]],
   tags |-> [i \in 1..Len(doc.tags) |-> doc.tags[i]]] @@ doc

(***************************************************************************)
(* store.ts: the store.  A handler is a function from the state it reads   *)
(* with get() to the state it leaves with set().                           *)
(***************************************************************************)
maxHistorySize == 50

State ==
  [document |-> document, documentVersion |-> documentVersion,
   history |-> history, historyIndex |-> historyIndex,
   maxHistorySize |-> maxHistorySize, commandLog |-> commandLog]

\* zustand's set(partial): a shallow merge into the state
set(state, partial) == partial @@ state

Command(type, payload) == [type |-> type, payload |-> payload]

\* [...state.history.slice(0, state.historyIndex + 1), cloneDocument(state.document)]
pushHistory(state) ==
  Append(SubSeq(state.history, 1, state.historyIndex + 1), cloneDocument(state.document))

\* commit with the forward snapshots kept and the cursor moved one step
commitKeepsForward(state, newDoc, type, payload) ==
  LET newHistory == Append(state.history, cloneDocument(state.document))
  IN  set(state, [document |-> newDoc,
                  history |-> newHistory,
                  historyIndex |-> state.historyIndex + 1,
                  documentVersion |-> state.documentVersion + 1,
                  commandLog |-> Append(state.commandLog, Command(type, payload))])

\* the set({...}) call every mutation handler but setDocument ends with
commit(state, newDoc, type, payload) ==
  LET newHistory == pushHistory(state)
  IN  set(state, [document |-> newDoc,
                  history |-> newHistory,
                  historyIndex |-> Len(newHistory) - 1,
                  documentVersion |-> state.documentVersion + 1,
                  commandLog |-> Append(state.commandLog, Command(type, payload))])

setDocument(state, doc) ==
  LET pushed == pushHistory(state)
      newHistory == IF Len(pushed) > state.maxHistorySize THEN Tail(pushed) ELSE pushed
  IN  set(state, [document |-> doc,
                  history |-> newHistory,
                  historyIndex |-> Len(newHistory) - 1,
                  documentVersion |-> state.documentVersion + 1,
                  commandLog |-> Append(state.commandLog, Command("IMPORT_DOCUMENT", null))])

updateInfo(state, info) ==
  LET newDoc == cloneDocument(state.document)
  IN  commit(state, [newDoc EXCEPT !.info = info @@ newDoc.info], "UPDATE_INFO", info)

addSchema(state, schema) ==
  LET newDoc == cloneDocument(state.document)
  IN  commit(state, [newDoc EXCEPT !.schemas = MapSet(@, schema.id, schema)],
             "ADD_SCHEMA", schema)

updateSchema(state, id, updates) ==
  IF ~MapHas(state.document.schemas, id) THEN state
  ELSE
    LET schema == MapGet(state.document.schemas, id)
        newDoc == cloneDocument(state.document)
        merged == updates @@ schema
        \* the properties Map of the updates is copied
        updatedSchema ==
          IF Has(updates, "properties")
          THEN [merged EXCEPT !.properties = [i \in 1..Len(updates.properties) |-> updates.properties[i]]]
          ELSE merged
    IN  commit(state, [newDoc EXCEPT !.schemas = MapSet(@, id, updatedSchema)],
               "UPDATE_SCHEMA", [id |-> id, updates |-> updates])

\* deleteSchema that also drops the array schemas whose items refer to id
deleteSchemaCascade(state, id) ==
  LET newDoc == cloneDocument(state.document)
      kept == SelectSeq(newDoc.schemas,
                LAMBDA e : e.k # id /\ ~(Has(e.v, "items") /\ e.v.items = Ref(id)))
  IN  commit(state, [newDoc EXCEPT !.schemas = kept], "DELETE_SCHEMA", [id |-> id])

deleteSchema(state, id) ==
  LET newDoc == cloneDocument(state.document)
  IN  commit(state, [newDoc EXCEPT !.schemas = MapDelete(@, id)],
             "DELETE_SCHEMA", [id |-> id])

addFieldToSchema(state, schemaId, field) ==
  IF \/ ~MapHas(state.document.schemas, schemaId)
     \/ MapGet(state.document.schemas, schemaId).type # "object"
  THEN state
  ELSE
    LET newDoc == cloneDocument(state.document)
        s0 == MapGet(newDoc.schemas, schemaId)
        s1 == IF ~Has(s0, "properties") THEN [properties |-> <<>>] @@ s0 ELSE s0
        s2 == [s1 EXCEPT !.properties = MapSet(@, field.name, field)]
        s3 == IF field.required /\ ~Has(s2, "required") THEN [required |-> <<>>] @@ s2 ELSE s2
        updatedSchema ==
          IF field.required /\ ~includes(s3.required, field.name)
          THEN [s3 EXCEPT !.required = Append(@, field.name)]
          ELSE s3
    IN  commit(state, [newDoc EXCEPT !.schemas = MapSet(@, schemaId, updatedSchema)],
               "ADD_FIELD", [schemaId |-> schemaId, field |-> field])

updateField(state, schemaId, fieldName, updates) ==
  IF \/ ~MapHas(state.document.schemas, schemaId)
     \/ ~Has(MapGet(state.document.schemas, schemaId), "properties")
  THEN state
  ELSE IF ~MapHas(MapGet(state.document.schemas, schemaId).properties, fieldName)
  THEN state
  ELSE
    LET schema == MapGet(state.document.schemas, schemaId)
        field == MapGet(schema.properties, fieldName)
        newDoc == cloneDocument(state.document)
        s0 == MapGet(newDoc.schemas, schemaId)
        updatedField == updates @@ field
        rename == Has(updates, "name") /\ updates.name # "" /\ updates.name # fieldName
        \* field rename, or replacement in place
        s1 == IF rename
              THEN [s0 EXCEPT !.properties =
                      MapSet(MapDelete(@, fieldName), updates.name, updatedField)]
              ELSE [s0 EXCEPT !.properties = MapSet(@, fieldName, updatedField)]
        s2 == IF rename /\ Has(s1, "required") /\ indexOf(s1.required, fieldName) # -1
              THEN [s1 EXCEPT !.required =
                      assignAt(@, indexOf(s1.required, fieldName), updates.name)]
              ELSE s1
        \* required change
        s3 == IF Has(updates, "required") /\ ~Has(s2, "required")
              THEN [required |-> <<>>] @@ s2 ELSE s2
        name == IF Has(updates, "name") /\ updates.name # "" THEN updates.name ELSE fieldName
        updatedSchema ==
          IF ~Has(updates, "required") THEN s3
          ELSE LET idx == indexOf(s3.required, name)
               IN  IF updates.required /\ idx = -1
                     THEN [s3 EXCEPT !.required = Append(@, name)]
                   ELSE IF ~updates.required /\ idx # -1
                     THEN [s3 EXCEPT !.required = splice1(@, idx)]
                   ELSE s3
    IN  commit(state, [newDoc EXCEPT !.schemas = MapSet(@, schemaId, updatedSchema)],
               "UPDATE_FIELD",
               [schemaId |-> schemaId, fieldName |-> fieldName, updates |-> updates])

deleteField(state, schemaId, fieldName) ==
  IF \/ ~MapHas(state.document.schemas, schemaId)
     \/ ~Has(MapGet(state.document.schemas, schemaId), "properties")
  THEN state
  ELSE
    LET newDoc == cloneDocument(state.document)
        s0 == MapGet(newDoc.schemas, schemaId)
        s1 == [s0 EXCEPT !.properties = MapDelete(@, fieldName)]
        updatedSchema ==
          IF Has(s1, "required") /\ indexOf(s1.required, fieldName) # -1
          THEN [s1 EXCEPT !.required = splice1(@, indexOf(s1.required, fieldName))]
          ELSE s1
    IN  commit(state, [newDoc EXCEPT !.schemas = MapSet(@, schemaId, updatedSchema)],
               "DELETE_FIELD", [schemaId |-> schemaId, fieldName |-> fieldName])

addRoute(state, route) ==
  LET newDoc == cloneDocument(state.document)
  IN  commit(state, [newDoc EXCEPT !.routes = MapSet(@, route.id, route)],
             "ADD_ROUTE", route)

updateRoute(state, id, updates) ==
  IF ~MapHas(state.document.routes, id) THEN state
  ELSE
    LET route == MapGet(state.document.routes, id)
        newDoc == cloneDocument(state.document)
    IN  commit(state, [newDoc EXCEPT !.routes = MapSet(@, id, updates @@ route)],
               "UPDATE_ROUTE", [id |-> id, updates |-> updates])

deleteRoute(state, id) ==
  LET newDoc == cloneDocument(state.document)
  IN  commit(state, [newDoc EXCEPT !.routes = MapDelete(@, id)],
             "DELETE_ROUTE", [id |-> id])

addParameter(state, routeId, param) ==
  IF ~MapHas(state.document.routes, routeId) THEN state
  ELSE
    LET newDoc == cloneDocument(state.document)
        r0 == MapGet(newDoc.routes, routeId)
        updatedRoute == [r0 EXCEPT !.parameters = Append(@, param)]
    IN  commit(state, [newDoc EXCEPT !.routes = MapSet(@, routeId, updatedRoute)],
               "ADD_PARAMETER", [routeId |-> routeId, param |-> param])

updateParameter(state, routeId, paramId, updates) ==
  IF ~MapHas(state.document.routes, routeId) THEN state
  ELSE
    LET newDoc == cloneDocument(state.document)
        r0 == MapGet(newDoc.routes, routeId)
        updatedRoute ==
          [r0 EXCEPT !.parameters =
             [i \in 1..Len(@) |-> IF @[i].id = paramId THEN updates @@ @[i] ELSE @[i]]]
    IN  commit(state, [newDoc EXCEPT !.routes = MapSet(@, routeId, updatedRoute)],
               "UPDATE_PARAMETER",
               [routeId |-> routeId, paramId |-> paramId, updates |-> updates])

deleteParameter(state, routeId, paramId) ==
  IF ~MapHas(state.document.routes, routeId) THEN state
  ELSE
    LET newDoc == cloneDocument(state.document)
        r0 == MapGet(newDoc.routes, routeId)
        updatedRoute == [r0 EXCEPT !.parameters = SelectSeq(@, LAMBDA p : p.id # paramId)]
    IN  commit(state, [newDoc EXCEPT !.routes = MapSet(@, routeId, updatedRoute)],
               "DELETE_PARAMETER", [routeId |-> routeId, paramId |-> paramId])

\* body is <<>> for undefined and <<b>> for the request body b
setRequestBody(state, routeId, body) ==
  IF ~MapHas(state.document.routes, routeId) THEN state
  ELSE
    LET newDoc == cloneDocument(state.document)
        r0 == MapGet(newDoc.routes, routeId)
        updatedRoute == IF body = <<>> THEN Without(r0, "requestBody")
                        ELSE [requestBody |-> body[1]] @@ r0
    IN  commit(state, [newDoc EXCEPT !.routes = MapSet(@, routeId, updatedRoute)],
               "SET_REQUEST_BODY", [routeId |-> routeId, body |-> body])

addResponse(state, routeId, statusCode, response) ==
  IF ~MapHas(state.document.routes, routeId) THEN state
  ELSE
    LET newDoc == cloneDocument(state.document)
        r0 == MapGet(newDoc.routes, routeId)
        updatedRoute == [r0 EXCEPT !.responses = MapSet(@, statusCode, response)]
    IN  commit(state, [newDoc EXCEPT !.routes = MapSet(@, routeId, updatedRoute)],
               "ADD_RESPONSE",
               [routeId |-> routeId, statusCode |-> statusCode, response |-> response])

updateResponse(state, routeId, statusCode, updates) ==
  IF ~MapHas(state.document.routes, routeId) THEN state
  ELSE IF ~MapHas(MapGet(state.document.routes, routeId).responses, statusCode) THEN state
  ELSE
    LET response == MapGet(MapGet(state.document.routes, routeId).responses, statusCode)
        newDoc == cloneDocument(state.document)
        r0 == MapGet(newDoc.routes, routeId)
        updatedRoute == [r0 EXCEPT !.responses = MapSet(@, statusCode, updates @@ response)]
    IN  commit(state, [newDoc EXCEPT !.routes = MapSet(@, routeId, updatedRoute)],
               "UPDATE_RESPONSE",
               [routeId |-> routeId, statusCode |-> statusCode, updates |-> updates])

deleteResponse(state, routeId, statusCode) ==
  IF ~MapHas(state.document.routes, routeId) THEN state
  ELSE
    LET newDoc == cloneDocument(state.document)
        r0 == MapGet(newDoc.routes, routeId)
        updatedRoute == [r0 EXCEPT !.responses = MapDelete(@, statusCode)]
    IN  commit(state, [newDoc EXCEPT !.routes = MapSet(@, routeId, updatedRoute)],
               "DELETE_RESPONSE", [routeId |-> routeId, statusCode |-> statusCode])

addServer(state, server) ==
  LET newDoc == cloneDocument(state.document)
  IN  commit(state, [newDoc EXCEPT !.servers = Append(@, server)], "ADD_SERVER", server)

updateServer(state, index, server) ==
  LET newDoc == cloneDocument(state.document)
  IN  commit(state, [newDoc EXCEPT !.servers = assignAt(@, index, server)],
             "UPDATE_SERVER", [index |-> index, server |-> server])

deleteServer(state, index) ==
  LET newDoc == cloneDocument(state.document)
  IN  commit(state, [newDoc EXCEPT !.servers = splice1(@, index)],
             "DELETE_SERVER", [index |-> index])

addSecurityScheme(state, scheme) ==
  LET newDoc == cloneDocument(state.document)
  IN  commit(state, [newDoc EXCEPT !.securitySchemes = MapSet(@, scheme.id, scheme)],
             "ADD_SECURITY_SCHEME", scheme)

updateSecurityScheme(state, id, updates) ==
  IF ~MapHas(state.document.securitySchemes, id) THEN state
  ELSE
    LET scheme == MapGet(state.document.securitySchemes, id)
        newDoc == cloneDocument(state.document)
    IN  commit(state, [newDoc EXCEPT !.securitySchemes = MapSet(@, id, updates @@ scheme)],
               "UPDATE_SECURITY_SCHEME", [id |-> id, updates |-> updates])

deleteSecurityScheme(state, id) ==
  LET newDoc == cloneDocument(state.document)
  IN  commit(state, [newDoc EXCEPT !.securitySchemes = MapDelete(@, id)],
             "DELETE_SECURITY_SCHEME", [id |-> id])

addTag(state, tag) ==
  LET newDoc == cloneDocument(state.document)
      tags == IF ~\E i \in 1..Len(newDoc.tags) : newDoc.tags[i].name = tag.name
              THEN Append(newDoc.tags, tag) ELSE newDoc.tags
  IN  commit(state, [newDoc EXCEPT !.tags = tags], "ADD_TAG", tag)

deleteTag(state, name) ==
  LET newDoc == cloneDocument(state.document)
  IN  commit(state, [newDoc EXCEPT !.tags = SelectSeq(@, LAMBDA t : t.name # name)],
             "DELETE_TAG", [name |-> name])

\* undo that always restores the newest snapshot
undoNewest(state) ==
  IF state.historyIndex < 0 THEN state
  ELSE set(state, [document |-> state.history[Len(state.history)],
                   historyIndex |-> state.historyIndex - 1,
                   documentVersion |-> state.documentVersion + 1])

\* history is indexed from 0 in the code and from 1 here
undo(state) ==
  IF state.historyIndex < 0 THEN state
  ELSE set(state, [document |-> state.history[state.historyIndex + 1],
                   historyIndex |-> state.historyIndex - 1,
                   documentVersion |-> state.documentVersion + 1])

redo(state) ==
  IF state.historyIndex >= Len(state.history) - 1 THEN state
  ELSE IF state.historyIndex + 2 >= Len(state.history) THEN state
  ELSE set(state, [document |-> state.history[state.historyIndex + 3],
                   historyIndex |-> state.historyIndex + 1,
                   documentVersion |-> state.documentVersion + 1])

canUndo(state) == state.historyIndex >= 0

canRedo(state) == state.historyIndex < Len(state.history) - 1

initializeDocument(state, doc) ==
  set(state, [document |-> doc, history |-> <<>>, historyIndex |-> -1,
              documentVersion |-> 0, commandLog |-> <<>>])

(***************************************************************************)
(* The validator.  Each pass returns the diagnostics it pushes, in order.  *)
(* A message is the tuple of the pieces of its template string.  Strings   *)
(* are atoms here: the tests the code makes on their characters are        *)
(* tabulated for the strings the model uses.                               *)
(***************************************************************************)
\* a path template is the sequence of its literal pieces and {placeholders}
Lit(text) == [lit |-> text]

Placeholder(name) == [param |-> name]

RECURSIVE Flatten(_)
Flatten(ss) ==
  With(ss, LAMBDA rest : IF rest = <<>> THEN <<>> ELSE Head(rest) \o Flatten(Tail(rest)))

Diagnostic(code, message, severity, location) ==
  [code |-> code, message |-> message, severity |-> severity, location |-> location]

Diagnostics(errors, warnings) == [errors |-> errors, warnings |-> warnings]

\* !s.trim()
isBlank(str) == str \in {"", " "}

\* /^[A-Z][a-zA-Z0-9]*$/.test(name)
isPascalCase(name) == name \in {"A", "B", "C", "Pet", "Order"}

\* /^[a-z][a-zA-Z0-9]*$/.test(operationId)
isCamelCase(operationId) == operationId \in {"listPets", "getPet", "op"}

\* the first character of a status code
leadingChar(statusCode) ==
  CASE statusCode \in {"200", "201", "204"} -> "2"
    [] statusCode \in {"400", "404"} -> "4"
    [] statusCode \in {"500"} -> "5"
    [] OTHER -> "d"

\* schema.name || 'Anonymous'
nameOrAnonymous(schema) ==
  IF Has(schema, "name") /\ schema.name # "" THEN schema.name ELSE "Anonymous"

validateInfo(doc) ==
  Diagnostics(
    (IF isBlank(doc.info.title)
     THEN <<Diagnostic("MISSING_TITLE", <<"API title is required">>, "error",
                       [path |-> <<"info", "title">>])>>
     ELSE <<>>)
    \o
    (IF isBlank(doc.info.version)
     THEN <<Diagnostic("MISSING_VERSION", <<"API version is required">>, "error",
                       [path |-> <<"info", "version">>])>>
     ELSE <<>>),
    (IF ~Has(doc.info, "description") \/ doc.info.description = ""
     THEN <<Diagnostic("MISSING_DESCRIPTION", <<"Consider adding an API description">>,
                       "info", [path |-> <<"info", "description">>])>>
     ELSE <<>>)
    \o
    (IF Len(doc.servers) = 0
     THEN <<Diagnostic("NO_SERVERS", <<"No server URLs defined">>, "warning",
                       [path |-> <<"servers">>])>>
     ELSE <<>>))

validateObjectSchema(schema) ==
  Diagnostics(
    IF Has(schema, "required") /\ Has(schema, "properties")
    THEN Flatten([j \in 1..Len(schema.required) |->
           IF ~MapHas(schema.properties, schema.required[j])
           THEN <<Diagnostic("INVALID_REQUIRED",
                             <<"Required field \"", schema.required[j], "\" is not defined in properties">>,
                             "error", [nodeId |-> schema.id, field |-> schema.required[j]])>>
           ELSE <<>>])
    ELSE <<>>,
    IF ~Has(schema, "properties") \/ Len(schema.properties) = 0
    THEN <<Diagnostic("EMPTY_OBJECT", <<"Object schema \"", nameOrAnonymous(schema), "\" has no properties">>,
                      "warning", [nodeId |-> schema.id])>>
    ELSE <<>>)

validateEnumSchema(schema) ==
  Diagnostics(
    (IF ~Has(schema, "enumValues") \/ Len(schema.enumValues) = 0
     THEN <<Diagnostic("EMPTY_ENUM", <<"Enum schema \"", nameOrAnonymous(schema), "\" has no values">>,
                       "error", [nodeId |-> schema.id])>>
     ELSE <<>>)
    \o
    (IF Has(schema, "enumValues")
     THEN Flatten([j \in 1..Len(schema.enumValues) |->
            IF \E k \in 1..(j - 1) : schema.enumValues[k] = schema.enumValues[j]
            THEN <<Diagnostic("DUPLICATE_ENUM_VALUE",
                              <<"Duplicate enum value: ", schema.enumValues[j]>>,
                              "error", [nodeId |-> schema.id])>>
            ELSE <<>>])
     ELSE <<>>),
    <<>>)

validateArraySchema(schema) ==
  Diagnostics(
    IF ~Has(schema, "items")
    THEN <<Diagnostic("MISSING_ARRAY_ITEMS",
                      <<"Array schema \"", nameOrAnonymous(schema), "\" is missing items definition">>,
                      "error", [nodeId |-> schema.id])>>
    ELSE <<>>,
    <<>>)

validateCompositionSchema(schema) ==
  Diagnostics(
    IF ~Has(schema, "variants") \/ Len(schema.variants) = 0
    THEN <<Diagnostic("EMPTY_COMPOSITION",
                      <<schema.type, " schema \"", nameOrAnonymous(schema), "\" has no variants">>,
                      "error", [nodeId |-> schema.id])>>
    ELSE <<>>,
    (IF Has(schema, "variants") /\ Len(schema.variants) = 1
     THEN <<Diagnostic("SINGLE_VARIANT",
                       <<schema.type, " schema \"", nameOrAnonymous(schema), "\" has only one variant">>,
                       "warning", [nodeId |-> schema.id])>>
     ELSE <<>>)
    \o
    (IF /\ schema.type = "oneOf" /\ ~Has(schema, "discriminator")
        /\ Has(schema, "variants") /\ Len(schema.variants) > 1
     THEN <<Diagnostic("MISSING_DISCRIMINATOR",
                       <<"oneOf schema \"", nameOrAnonymous(schema), "\" should have a discriminator">>,
                       "info", [nodeId |-> schema.id])>>
     ELSE <<>>))

\* the diagnostics of the i-th schema of the map
validateSchemaAt(doc, i) ==
  LET id == doc.schemas[i].k
      schema == doc.schemas[i].v
      named == Has(schema, "name") /\ schema.name # ""
      seenBefore == \E k \in 1..(i - 1) :
                      /\ Has(doc.schemas[k].v, "name")
                      /\ doc.schemas[k].v.name = schema.name
      byType ==
        IF schema.type = "object" THEN validateObjectSchema(schema)
        ELSE IF schema.type = "enum" THEN validateEnumSchema(schema)
        ELSE IF schema.type = "array" THEN validateArraySchema(schema)
        ELSE IF schema.type \in {"oneOf", "anyOf", "allOf"}
          THEN validateCompositionSchema(schema)
        ELSE Diagnostics(<<>>, <<>>)
  IN  Diagnostics(
        (IF named /\ seenBefore
         THEN <<Diagnostic("DUPLICATE_SCHEMA_NAME", <<"Duplicate schema name: ", schema.name>>,
                           "error", [nodeId |-> id])>>
         ELSE <<>>)
        \o byType.errors,
        (IF named /\ ~isPascalCase(schema.name)
         THEN <<Diagnostic("SCHEMA_NAMING_CONVENTION",
                           <<"Schema name \"", schema.name, "\" should use PascalCase">>,
                           "info", [nodeId |-> id])>>
         ELSE <<>>)
        \o byType.warnings)

validateSchemas(doc) ==
  Diagnostics(
    Flatten([i \in 1..Len(doc.schemas) |-> validateSchemaAt(doc, i).errors]),
    Flatten([i \in 1..Len(doc.schemas) |-> validateSchemaAt(doc, i).warnings]))

\* route.path.match(/\{([^}]+)\}/g) || []
pathParams(path) == SelectSeq(path, LAMBDA t : Has(t, "param"))

\* the diagnostics of the i-th route of the map
validateRouteAt(doc, i) ==
  LET id == doc.routes[i].k
      route == doc.routes[i].v
      combo == <<route.method, " ", route.path>>
      hasOperationId == Has(route, "operationId") /\ route.operationId # ""
      definedPathParams ==
        LET inPath == SelectSeq(route.parameters, LAMBDA p : p.in = "path")
        IN  [j \in 1..Len(inPath) |-> Placeholder(inPath[j].name)]
      placeholders == pathParams(route.path)
      codes == MapKeys(route.responses)
      success ==
        IF MapHas(route.responses, "200") THEN <<MapGet(route.responses, "200")>>
        ELSE IF MapHas(route.responses, "201") THEN <<MapGet(route.responses, "201")>>
        ELSE <<>>
  IN  Diagnostics(
        (IF \E k \in 1..(i - 1) :
              <<doc.routes[k].v.method, " ", doc.routes[k].v.path>> = combo
         THEN <<Diagnostic("DUPLICATE_OPERATION", <<"Duplicate operation: ", combo>>,
                           "error", [nodeId |-> id])>>
         ELSE <<>>)
        \o
        (IF /\ hasOperationId
            /\ \E k \in 1..(i - 1) :
                 /\ Has(doc.routes[k].v, "operationId")
                 /\ doc.routes[k].v.operationId = route.operationId
         THEN <<Diagnostic("DUPLICATE_OPERATION_ID",
                           <<"Duplicate operationId: ", route.operationId>>,
                           "error", [nodeId |-> id])>>
         ELSE <<>>)
        \o
        Flatten([j \in 1..Len(placeholders) |->
          IF ~includes(definedPathParams, placeholders[j])
          THEN <<Diagnostic("UNDEFINED_PATH_PARAM",
                            <<"Path parameter ", placeholders[j], " is not defined">>,
                            "error", [nodeId |-> id])>>
          ELSE <<>>])
        \o
        (IF Len(route.responses) = 0
         THEN <<Diagnostic("NO_RESPONSES", <<"Route ", combo, " has no responses defined">>,
                           "error", [nodeId |-> id])>>
         ELSE <<>>),
        (IF hasOperationId
         THEN IF ~isCamelCase(route.operationId)
              THEN <<Diagnostic("OPERATION_ID_NAMING",
                                <<"operationId \"", route.operationId, "\" should use camelCase">>,
                                "info", [nodeId |-> id])>>
              ELSE <<>>
         ELSE <<Diagnostic("MISSING_OPERATION_ID", <<"Route ", combo, " is missing operationId">>,
                           "warning", [nodeId |-> id])>>)
        \o
        (IF ~\E c \in codes : leadingChar(c) = "2"
         THEN <<Diagnostic("NO_SUCCESS_RESPONSE", <<"Route ", combo, " has no success (2xx) response">>,
                           "warning", [nodeId |-> id])>>
         ELSE <<>>)
        \o
        (IF ~\E c \in codes : leadingChar(c) \in {"4", "5"}
         THEN <<Diagnostic("NO_ERROR_RESPONSE", <<"Route ", combo, " has no error (4xx/5xx) response">>,
                           "info", [nodeId |-> id])>>
         ELSE <<>>)
        \o
        (IF route.method # "delete" /\ success # <<>> /\ ~Has(success[1], "content")
         THEN <<Diagnostic("SUCCESS_WITHOUT_BODY", <<combo, " success response has no body schema">>,
                           "warning", [nodeId |-> id])>>
         ELSE <<>>))

validateRoutes(doc) ==
  Diagnostics(
    Flatten([i \in 1..Len(doc.routes) |-> validateRouteAt(doc, i).errors]),
    Flatten([i \in 1..Len(doc.routes) |-> validateRouteAt(doc, i).warnings]))

\* a reference check that stops at inline schemas
checkRefShallow(validSchemaIds, schemaOrRef, context, nodeId) ==
  IF schemaOrRef.kind = "ref" /\ schemaOrRef.targetId \notin validSchemaIds
  THEN <<Diagnostic("BROKEN_REFERENCE", <<"Broken reference in ", context>>,
                    "error", [nodeId |-> nodeId])>>
  ELSE <<>>

RECURSIVE checkRef(_, _, _, _)
RECURSIVE checkSchemaRefs(_, _, _, _)
\* the errors checkRef pushes; validSchemaIds is the set it closes over
checkRef(validSchemaIds, schemaOrRef, context, nodeId) ==
  IF schemaOrRef.kind = "ref"
  THEN IF schemaOrRef.targetId \notin validSchemaIds
       THEN <<Diagnostic("BROKEN_REFERENCE", <<"Broken reference in ", context>>,
                         "error", [nodeId |-> nodeId])>>
       ELSE <<>>
  ELSE IF schemaOrRef.kind = "inline"
    THEN checkSchemaRefs(validSchemaIds, schemaOrRef.schema, context, nodeId)
  ELSE <<>>

checkSchemaRefs(validSchemaIds, schema, context, nodeId) ==
  (IF Has(schema, "properties")
   THEN Flatten([i \in 1..Len(schema.properties) |->
          checkRef(validSchemaIds, schema.properties[i].v.schema,
                   context \o <<".", schema.properties[i].k>>, nodeId)])
   ELSE <<>>)
  \o
  (IF Has(schema, "items")
   THEN checkRef(validSchemaIds, schema.items, context \o <<"[items]">>, nodeId)
   ELSE <<>>)
  \o
  (IF Has(schema, "variants")
   THEN Flatten([i \in 1..Len(schema.variants) |->
          checkRef(validSchemaIds, schema.variants[i], context \o <<"[variant]">>, nodeId)])
   ELSE <<>>)

\* the errors the reference check pushes for one route
checkRouteRefs(validSchemaIds, id, route) ==
  LET combo == <<route.method, " ", route.path>>
  IN  Flatten([j \in 1..Len(route.parameters) |->
        checkRef(validSchemaIds, route.parameters[j].schema,
                 combo \o <<" param ", route.parameters[j].name>>, id)])
      \o
      (IF Has(route, "requestBody") /\ Has(route.requestBody, "content")
       THEN Flatten([j \in 1..Len(route.requestBody.content) |->
              checkRef(validSchemaIds, route.requestBody.content[j].v.schema,
                       combo \o <<" request body">>, id)])
       ELSE <<>>)
      \o
      Flatten([j \in 1..Len(route.responses) |->
        IF Has(route.responses[j].v, "content")
        THEN Flatten([k \in 1..Len(route.responses[j].v.content) |->
               checkRef(validSchemaIds, route.responses[j].v.content[k].v.schema,
                        combo \o <<" response ", route.responses[j].k>>, id)])
        ELSE <<>>])

RECURSIVE markUsed(_)
RECURSIVE markUsedInSchema(_)
\* the identifiers markUsed adds to usedSchemaIds
markUsed(schemaOrRef) ==
  IF schemaOrRef.kind = "ref" THEN {schemaOrRef.targetId}
  ELSE IF schemaOrRef.kind = "inline" THEN markUsedInSchema(schemaOrRef.schema)
  ELSE {}

markUsedInSchema(schema) ==
  (IF Has(schema, "properties")
   THEN UNION {markUsed(schema.properties[i].v.schema) : i \in 1..Len(schema.properties)}
   ELSE {})
  \cup (IF Has(schema, "items") THEN markUsed(schema.items) ELSE {})
  \cup (IF Has(schema, "variants")
        THEN UNION {markUsed(schema.variants[i]) : i \in 1..Len(schema.variants)}
        ELSE {})

\* the identifiers one route marks as used
markUsedInRoute(route) ==
  UNION {markUsed(route.parameters[j].schema) : j \in 1..Len(route.parameters)}
  \cup (IF Has(route, "requestBody") /\ Has(route.requestBody, "content")
        THEN UNION {markUsed(route.requestBody.content[j].v.schema) :
                      j \in 1..Len(route.requestBody.content)}
        ELSE {})
  \cup UNION {IF Has(route.responses[j].v, "content")
              THEN UNION {markUsed(route.responses[j].v.content[k].v.schema) :
                            k \in 1..Len(route.responses[j].v.content)}
              ELSE {} : j \in 1..Len(route.responses)}

usedSchemaIds(doc) ==
  UNION {markUsedInRoute(doc.routes[i].v) : i \in 1..Len(doc.routes)}
  \cup UNION {markUsedInSchema(doc.schemas[i].v) : i \in 1..Len(doc.schemas)}

\* the direct Ref targets of a schema, in the order they are pushed
collectRefs(schema) ==
  LET collect(schemaOrRef) ==
        IF schemaOrRef.kind = "ref" THEN <<schemaOrRef.targetId>> ELSE <<>>
  IN  (IF Has(schema, "properties")
       THEN Flatten([i \in 1..Len(schema.properties) |->
                       collect(schema.properties[i].v.schema)])
       ELSE <<>>)
      \o (IF Has(schema, "items") THEN collect(schema.items) ELSE <<>>)
      \o (IF Has(schema, "variants")
          THEN Flatten([i \in 1..Len(schema.variants) |-> collect(schema.variants[i])])
          ELSE <<>>)

\* a search that looks no further than the schema's own Ref edges
hasCycleSelfOnly(doc, schemaId, visited, stack) ==
  [found |-> /\ MapHas(doc.schemas, schemaId)
             /\ includes(collectRefs(MapGet(doc.schemas, schemaId)), schemaId),
   visited |-> visited \cup {schemaId},
   stack |-> stack]

RECURSIVE hasCycle(_, _, _, _)
RECURSIVE hasCycleRefs(_, _, _, _)
\* the depth-first search; visited and stack are the sets it updates, and
\* the result carries them back to the caller
hasCycle(doc, schemaId, visited, stack) ==
  IF schemaId \in stack THEN [found |-> TRUE, visited |-> visited, stack |-> stack]
  ELSE IF schemaId \in visited THEN [found |-> FALSE, visited |-> visited, stack |-> stack]
  ELSE LET entered == [found |-> FALSE, visited |-> visited \cup {schemaId},
                       stack |-> stack \cup {schemaId}]
           r == IF MapHas(doc.schemas, schemaId)
                THEN hasCycleRefs(doc, collectRefs(MapGet(doc.schemas, schemaId)),
                                  entered.visited, entered.stack)
                ELSE entered
       IN  IF r.found THEN r
           ELSE [found |-> FALSE, visited |-> r.visited, stack |-> r.stack \ {schemaId}]

\* the loop over the refs of one schema, left at the first cycle found
hasCycleRefs(doc, refs, visited, stack) ==
  IF refs = <<>> THEN [found |-> FALSE, visited |-> visited, stack |-> stack]
  ELSE LET r == hasCycle(doc, Head(refs), visited, stack)
       IN  IF r.found THEN r ELSE hasCycleRefs(doc, Tail(refs), r.visited, r.stack)

validateReferences(doc) ==
  LET validSchemaIds == MapKeys(doc.schemas)
      used == usedSchemaIds(doc)
  IN  Diagnostics(
        Flatten([i \in 1..Len(doc.schemas) |->
          checkSchemaRefs(validSchemaIds, doc.schemas[i].v,
                          <<nameOrAnonymous(doc.schemas[i].v)>>, doc.schemas[i].k)])
        \o
        Flatten([i \in 1..Len(doc.routes) |->
          checkRouteRefs(validSchemaIds, doc.routes[i].k, doc.routes[i].v)]),
        Flatten([i \in 1..Len(doc.schemas) |->
          IF doc.schemas[i].k \notin used
          THEN <<Diagnostic("ORPHANED_SCHEMA",
                            <<"Schema \"", nameOrAnonymous(doc.schemas[i].v),
                              "\" is not used anywhere">>,
                            "info", [nodeId |-> doc.schemas[i].k])>>
          ELSE <<>>])
        \o
        Flatten([i \in 1..Len(doc.schemas) |->
          IF hasCycle(doc, doc.schemas[i].k, {}, {}).found
          THEN <<Diagnostic("CIRCULAR_REFERENCE",
                            <<"Schema \"", nameOrAnonymous(doc.schemas[i].v),
                              "\" has a circular reference">>,
                            "warning", [nodeId |-> doc.schemas[i].k])>>
          ELSE <<>>]))

validateDocument(doc) ==
  LET info == validateInfo(doc)
      schemas == validateSchemas(doc)
      routes == validateRoutes(doc)
      references == validateReferences(doc)
      errors == info.errors \o schemas.errors \o routes.errors \o references.errors
      warnings == info.warnings \o schemas.warnings \o routes.warnings
                  \o references.warnings
  IN  [valid |-> Len(errors) = 0, errors |-> errors, warnings |-> warnings]

(***************************************************************************)
(* JavaScript values as the YAML library decodes and encodes them.  A      *)
(* value carries its type: Str, Num, Bool, Null, Undefined, Arr (its       *)
(* elements) or Obj (its own properties in enumeration order).             *)
(***************************************************************************)
Str(x) == [t |-> "str", s |-> x]

Num(x) == [t |-> "num", n |-> x]

Bool(x) == [t |-> "bool", b |-> x]

Null == [t |-> "null"]

Undefined == [t |-> "undefined"]

Arr(items) == [t |-> "arr", v |-> items]

Obj(entries) == [t |-> "obj", v |-> entries]

\* property keys that are array indexes, with the number each spells
IndexKeys == {"200", "201", "204", "400", "404", "500"}

keyNumber(k) ==
  CASE k = "200" -> 200 [] k = "201" -> 201 [] k = "204" -> 204
    [] k = "400" -> 400 [] k = "404" -> 404 [] k = "500" -> 500

\* obj[k] = v on the entries of an object: an existing key keeps its place,
\* a new index key goes among the index keys in ascending order, before
\* every other key, and any other new key goes last
ObjSet(entries, k, v) ==
  With(entries,
       LAMBDA obj :
         IF MapHas(obj, k) THEN [obj EXCEPT ![MapIndex(obj, k)] = Entry(k, v)]
         ELSE IF k \in IndexKeys
           THEN SelectSeq(obj, LAMBDA e : e.k \in IndexKeys /\ keyNumber(e.k) < keyNumber(k))
                \o <<Entry(k, v)>>
                \o SelectSeq(obj, LAMBDA e : ~(e.k \in IndexKeys
                                                /\ keyNumber(e.k) < keyNumber(k)))
         ELSE Append(obj, Entry(k, v)))

\* the entries of an object literal {k1: v1, ...} written in this order
RECURSIVE ObjOf(_)
ObjOf(entries) ==
  With(entries,
       LAMBDA written :
         IF written = <<>> THEN <<>>
         ELSE ObjSet(ObjOf(SubSeq(written, 1, Len(written) - 1)),
                     written[Len(written)].k, written[Len(written)].v))

\* v.k for a value that is neither null nor undefined
Get(value, k) ==
  IF value.t = "obj" /\ MapHas(value.v, k) THEN MapGet(value.v, k) ELSE Undefined

\* reading a property of null or undefined throws a TypeError
isNullish(value) == value.t \in {"null", "undefined"}

\* the conversion to boolean that if (v), !v, v || d and v && d make
truthy(value) ==
  CASE value.t = "str" -> value.s # ""
    [] value.t = "num" -> value.n # 0
    [] value.t = "bool" -> value.b
    [] value.t \in {"arr", "obj"} -> TRUE
    [] OTHER -> FALSE

\* typeof v === 'object'
isObjectType(value) == value.t \in {"obj", "arr", "null"}

\* Object.entries(v) for an object, an array (none of the arrays here has
\* elements where the code enumerates it), a number or a boolean
entries(value) == IF value.t = "obj" THEN value.v ELSE <<>>

(***************************************************************************)
(* YAML text as the sequence of its tokens.  YAML.stringify writes the     *)
(* properties of an object in their enumeration order and leaves out the   *)
(* properties whose value is undefined; YAML.parse reads the text back,    *)
(* gives null for the empty text and throws on text that is not            *)
(* well-formed.                                                            *)
(***************************************************************************)
Token(kind) == [tok |-> kind]

KeyToken(k) == [tok |-> "key", k |-> k]

ScalarToken(value) == [tok |-> "scalar", v |-> value]

RECURSIVE YAMLstringify(_)
YAMLstringify(value) ==
  IF value.t = "obj"
  THEN <<Token("{")>>
       \o Flatten([i \in 1..Len(value.v) |->
                     IF value.v[i].v.t = "undefined" THEN <<>>
                     ELSE <<KeyToken(value.v[i].k)>> \o YAMLstringify(value.v[i].v)])
       \o <<Token("}")>>
  ELSE IF value.t = "arr"
    THEN <<Token("[")>>
         \o Flatten([i \in 1..Len(value.v) |->
                       YAMLstringify(IF value.v[i].t = "undefined" THEN Null
                                     ELSE value.v[i])])
         \o <<Token("]")>>
  ELSE <<ScalarToken(value)>>

DecodeFailure == [ok |-> FALSE]

RECURSIVE decodeValue(_, _)
RECURSIVE decodeEntries(_, _, _)
RECURSIVE decodeItems(_, _, _)
\* the value that starts at token i, and the position after it
decodeValue(text, i) ==
  IF i > Len(text) THEN DecodeFailure
  ELSE IF text[i].tok = "scalar" THEN [ok |-> TRUE, value |-> text[i].v, next |-> i + 1]
  ELSE IF text[i].tok = "{" THEN decodeEntries(text, i + 1, <<>>)
  ELSE IF text[i].tok = "[" THEN decodeItems(text, i + 1, <<>>)
  ELSE DecodeFailure

decodeEntries(text, i, acc) ==
  IF i > Len(text) THEN DecodeFailure
  ELSE IF text[i].tok = "}" THEN [ok |-> TRUE, value |-> Obj(acc), next |-> i + 1]
  ELSE IF text[i].tok = "key"
    THEN With(decodeValue(text, i + 1),
              LAMBDA r : IF ~r.ok \/ MapHas(acc, text[i].k) THEN DecodeFailure
                         ELSE decodeEntries(text, r.next, ObjSet(acc, text[i].k, r.value)))
  ELSE DecodeFailure

decodeItems(text, i, acc) ==
  IF i > Len(text) THEN DecodeFailure
  ELSE IF text[i].tok = "]" THEN [ok |-> TRUE, value |-> Arr(acc), next |-> i + 1]
  ELSE With(decodeValue(text, i),
            LAMBDA r : IF ~r.ok THEN DecodeFailure
                       ELSE decodeItems(text, r.next, Append(acc, r.value)))

\* YAML.parse(text): ok is FALSE when it throws
YAMLparse(text) ==
  IF text = <<>> THEN [ok |-> TRUE, value |-> Null]
  ELSE With(decodeValue(text, 1),
            LAMBDA r : IF r.ok /\ r.next = Len(text) + 1
                       THEN [ok |-> TRUE, value |-> r.value]
                       ELSE DecodeFailure)

(***************************************************************************)
(* lib/openapi/serializer.ts.  A call deeper than MaxStack frames ends     *)
(* with the RangeError the engine throws when its call stack is full; the  *)
(* error passes through every caller, none of which catches it.            *)
(***************************************************************************)
Thrown(error) == [t |-> "thrown", error |-> error]

isThrown(value) == value.t = "thrown"

RECURSIVE hasThrown(_)
\* the value was being built when a call threw
hasThrown(value) ==
  \/ isThrown(value)
  \/ value.t = "arr" /\ \E i \in 1..Len(value.v) : hasThrown(value.v[i])
  \/ value.t = "obj" /\ \E i \in 1..Len(value.v) : hasThrown(value.v[i].v)

\* a field of the document that is present and not the empty string
nonEmpty(obj, f) == Has(obj, f) /\ obj[f] # ""

\* if (cond) result[k] = v, as the assignment to make or none
putIf(cond, k, v) == IF cond THEN <<Entry(k, v)>> ELSE <<>>

\* if (obj.f) result.f = obj.f, for a field that holds a string
putText(obj, f) == putIf(nonEmpty(obj, f), f, Str(obj[f]))

\* if (obj.f !== undefined) result.f = obj.f, for a field that holds a number
putNumber(obj, f) == putIf(Has(obj, f), f, Num(obj[f]))

\* if (obj.f !== undefined) result.f = obj.f, for a field of type unknown
putValue(obj, f) == putIf(Has(obj, f), f, obj[f])

\* the text of a path template and the template of a path text
pathText(path) ==
  CASE path = <<Lit("/a/"), Placeholder("id")>> -> "/a/{id}"
    [] path = <<Lit("/b")>> -> "/b"
    [] path = <<Lit("/users/"), Placeholder("id"), Lit("/orders/"), Placeholder("orderId")>>
         -> "/users/{id}/orders/{orderId}"

pathOfText(text) ==
  CASE text = "/a/{id}" -> <<Lit("/a/"), Placeholder("id")>>
    [] text = "/b" -> <<Lit("/b")>>
    [] text = "/users/{id}/orders/{orderId}"
         -> <<Lit("/users/"), Placeholder("id"), Lit("/orders/"), Placeholder("orderId")>>

\* the place of a path text in the order Array.prototype.sort gives
pathRank(text) ==
  CASE text = "/a/{id}" -> 1 [] text = "/b" -> 2 [] text = "/users/{id}/orders/{orderId}" -> 3

\* `#/components/schemas/${name}` for the schema names in use, and the name
\* that /^#\/components\/schemas\/(.+)$/ finds in such a text, if any
refText(name) ==
  CASE name = "A" -> "#/components/schemas/A"
    [] name = "B" -> "#/components/schemas/B"
    [] name = "C" -> "#/components/schemas/C"
    [] name = "Gone" -> "#/components/schemas/Gone"

refMatch(text) ==
  CASE text = "#/components/schemas/A" -> <<"A">>
    [] text = "#/components/schemas/B" -> <<"B">>
    [] text = "#/components/schemas/C" -> <<"C">>
    [] text = "#/components/schemas/Gone" -> <<"Gone">>
    [] OTHER -> <<>>

RECURSIVE serializeSchema(_, _, _)
RECURSIVE serializeSchemaOrRef(_, _, _)
\* the assignments to result are made in the order written
serializeSchema(schema, doc, depth) ==
  IF depth > MaxStack THEN Thrown("RangeError")
  ELSE IF schema.type \in {"oneOf", "anyOf", "allOf"}
  THEN Obj(ObjOf(
         putIf(Has(schema, "variants") /\ Len(schema.variants) > 0, schema.type,
               Arr([i \in 1..Len(schema.variants) |->
                      serializeSchemaOrRef(schema.variants[i], doc, depth + 1)]))
         \o putIf(/\ schema.type = "oneOf" /\ Has(schema, "discriminator")
                  /\ nonEmpty(schema.discriminator, "propertyName"),
                  "discriminator",
                  Obj(<<Entry("propertyName", Str(schema.discriminator.propertyName))>>))
         \o putText(schema, "description")))
  ELSE IF schema.type = "enum"
  THEN Obj(ObjOf(
         <<Entry("type", Str("string"))>>
         \o putIf(Has(schema, "enumValues") /\ Len(schema.enumValues) > 0, "enum",
                  Arr([i \in 1..Len(schema.enumValues) |-> Str(schema.enumValues[i])]))
         \o putText(schema, "description")))
  ELSE IF schema.type = "array"
  THEN Obj(ObjOf(
         <<Entry("type", Str("array"))>>
         \o putIf(Has(schema, "items"), "items",
                  serializeSchemaOrRef(schema.items, doc, depth + 1))
         \o putText(schema, "description")))
  ELSE IF schema.type = "object"
  THEN Obj(ObjOf(
         <<Entry("type", Str("object"))>>
         \o putIf(Has(schema, "properties") /\ Len(schema.properties) > 0, "properties",
                  Obj(ObjOf([i \in 1..Len(schema.properties) |->
                               Entry(schema.properties[i].k,
                                     With(serializeSchemaOrRef(schema.properties[i].v.schema,
                                                               doc, depth + 1),
                                          LAMBDA propSchema :
                                            IF isThrown(propSchema) THEN propSchema
                                            ELSE Obj(ObjOf(propSchema.v
                                                           \o putText(schema.properties[i].v,
                                                                      "description")))))])))
         \o putIf(Has(schema, "required") /\ Len(schema.required) > 0, "required",
                  Arr([i \in 1..Len(schema.required) |-> Str(schema.required[i])]))
         \o putText(schema, "description")))
  ELSE Obj(ObjOf(
         <<Entry("type", Str(schema.type))>>
         \o putText(schema, "description")
         \o putText(schema, "format")
         \o putNumber(schema, "minimum")
         \o putNumber(schema, "maximum")
         \o putNumber(schema, "minLength")
         \o putNumber(schema, "maxLength")
         \o putText(schema, "pattern")
         \o putValue(schema, "example")
         \o putValue(schema, "default")))

serializeSchemaOrRef(schemaOrRef, doc, depth) ==
  IF depth > MaxStack THEN Thrown("RangeError")
  ELSE IF schemaOrRef.kind = "ref" /\ ~MapHas(doc.schemas, schemaOrRef.targetId)
  THEN Obj(<<Entry("type", Str("object"))>>)
  ELSE IF /\ schemaOrRef.kind = "ref"
          /\ nonEmpty(MapGet(doc.schemas, schemaOrRef.targetId), "name")
  THEN Obj(<<Entry("$ref", Str(refText(MapGet(doc.schemas, schemaOrRef.targetId).name)))>>)
  ELSE serializeSchema(IF schemaOrRef.kind = "ref"
                       THEN MapGet(doc.schemas, schemaOrRef.targetId)
                       ELSE schemaOrRef.schema,
                       doc, depth + 1)

\* the content object of a request body or a response
serializeContent(content, doc, depth) ==
  Obj(ObjOf([i \in 1..Len(content) |->
               Entry(content[i].k,
                     Obj(<<Entry("schema",
                                 serializeSchemaOrRef(content[i].v.schema, doc, depth + 1))>>
                         \o putValue(content[i].v, "example")))]))

serializeParameter(param, doc, depth) ==
  Obj(ObjOf(
    <<Entry("name", Str(param.name)), Entry("in", Str(param.in))>>
    \o putIf(param.required, "required", Bool(TRUE))
    \o putText(param, "description")
    \o <<Entry("schema", serializeSchemaOrRef(param.schema, doc, depth + 1))>>
    \o putValue(param, "example")))

serializeRequestBody(body, doc, depth) ==
  Obj(ObjOf(
    putText(body, "description")
    \o putIf(body.required, "required", Bool(TRUE))
    \o <<Entry("content", serializeContent(body.content, doc, depth))>>))

serializeResponse(response, doc, depth) ==
  Obj(ObjOf(
    <<Entry("description", Str(response.description))>>
    \o putIf(Has(response, "content") /\ Len(response.content) > 0, "content",
             serializeContent(response.content, doc, depth))))

\* { [schemeName]: scopes }, or {} when the document has no such scheme
serializeSecurity(requirement, doc) ==
  IF MapHas(doc.securitySchemes, requirement.schemeId)
  THEN Obj(<<Entry(MapGet(doc.securitySchemes, requirement.schemeId).name,
                   Arr([j \in 1..Len(requirement.scopes) |-> Str(requirement.scopes[j])]))>>)
  ELSE Obj(<<>>)

serializeOperation(route, doc, depth) ==
  Obj(ObjOf(
    putText(route, "summary")
    \o putText(route, "description")
    \o putText(route, "operationId")
    \o putIf(Len(route.tags) > 0, "tags",
             Arr([i \in 1..Len(route.tags) |-> Str(route.tags[i])]))
    \o putIf(Has(route, "deprecated") /\ route.deprecated, "deprecated", Bool(TRUE))
    \o putIf(Len(route.parameters) > 0, "parameters",
             Arr([i \in 1..Len(route.parameters) |->
                    serializeParameter(route.parameters[i], doc, depth + 1)]))
    \o putIf(Has(route, "requestBody"), "requestBody",
             serializeRequestBody(route.requestBody, doc, depth + 1))
    \o <<Entry("responses",
               Obj(ObjOf([i \in 1..Len(route.responses) |->
                            Entry(route.responses[i].k,
                                  serializeResponse(route.responses[i].v, doc, depth + 1))])))>>
    \o putIf(Has(route, "security") /\ Len(route.security) > 0, "security",
             Arr([i \in 1..Len(route.security) |->
                    serializeSecurity(route.security[i], doc)]))))

serializeSecurityScheme(scheme) ==
  Obj(ObjOf(
    <<Entry("type", Str(scheme.type))>>
    \o putText(scheme, "description")
    \o putIf(scheme.type = "http", "scheme",
             Str(IF nonEmpty(scheme, "scheme") THEN scheme.scheme ELSE "bearer"))
    \o putIf(scheme.type = "http" /\ nonEmpty(scheme, "bearerFormat"), "bearerFormat",
             Str(scheme.bearerFormat))
    \o putIf(scheme.type = "apiKey", "in",
             Str(IF nonEmpty(scheme, "in") THEN scheme.in ELSE "header"))
    \o putIf(scheme.type = "apiKey", "name",
             Str(IF nonEmpty(scheme, "paramName") THEN scheme.paramName ELSE "api_key"))
    \o putIf(scheme.type = "oauth2" /\ Has(scheme, "flows"), "flows", scheme.flows)
    \o putIf(scheme.type = "openIdConnect" /\ nonEmpty(scheme, "openIdConnectUrl"),
             "openIdConnectUrl", Str(scheme.openIdConnectUrl))))

serializeInfo(info) ==
  Obj(ObjOf(
    <<Entry("title", Str(info.title)), Entry("version", Str(info.version))>>
    \o putText(info, "description")
    \o putText(info, "termsOfService")
    \o putIf(/\ Has(info, "contact")
             /\ (\/ nonEmpty(info.contact, "name") \/ nonEmpty(info.contact, "email")
                 \/ nonEmpty(info.contact, "url")),
             "contact",
             Obj(putText(info.contact, "name") \o putText(info.contact, "email")
                 \o putText(info.contact, "url")))
    \o putIf(Has(info, "license") /\ nonEmpty(info.license, "name"), "license",
             Obj(<<Entry("name", Str(info.license.name))>> \o putText(info.license, "url")))))

\* { name | url, ...(description && { description }) }
serializeLabelled(item, key) ==
  Obj(<<Entry(key, Str(item[key]))>> \o putText(item, "description"))

\* the paths in the order of their first route
pathGroupKeys(doc) ==
  SelectSeq([i \in 1..Len(doc.routes) |->
               IF \E k \in 1..(i - 1) :
                    pathText(doc.routes[k].v.path) = pathText(doc.routes[i].v.path)
               THEN "" ELSE pathText(doc.routes[i].v.path)],
            LAMBDA text : text # "")

\* the schemas that have a name
namedSchemas(doc) ==
  SelectSeq(MapValues(doc.schemas), LAMBDA schema : nonEmpty(schema, "name"))

\* the routes of one path
pathGroup(text, doc) == SelectSeq(MapValues(doc.routes), LAMBDA route : pathText(route.path) = text)

\* the routes of one path, each under its method
serializePathItem(text, doc) ==
  Obj(ObjOf([j \in 1..Len(pathGroup(text, doc)) |->
               Entry(pathGroup(text, doc)[j].method,
                     serializeOperation(pathGroup(text, doc)[j], doc, 1))]))

\* paths for the sorted keys of the path groups
serializePaths(sortedPaths, doc) ==
  Obj(ObjOf([i \in 1..Len(sortedPaths) |->
               Entry(sortedPaths[i], serializePathItem(sortedPaths[i], doc))]))

\* components.schemas for the named schemas
serializeSchemas(named, doc) ==
  Obj(ObjOf([i \in 1..Len(named) |-> Entry(named[i].name, serializeSchema(named[i], doc, 1))]))

serializeDocument(doc) ==
  Obj(ObjOf(
    <<Entry("openapi", Str("3.0.3")),
      Entry("info", serializeInfo(doc.info)),
      Entry("paths", serializePaths(SortSeq(pathGroupKeys(doc),
                                            LAMBDA a, b : pathRank(a) < pathRank(b)), doc))>>
    \o putIf(Len(doc.servers) > 0, "servers",
             Arr([i \in 1..Len(doc.servers) |-> serializeLabelled(doc.servers[i], "url")]))
    \o putIf(Len(doc.tags) > 0, "tags",
             Arr([i \in 1..Len(doc.tags) |-> serializeLabelled(doc.tags[i], "name")]))
    \o putIf(Len(namedSchemas(doc)) > 0 \/ Len(doc.securitySchemes) > 0, "components",
             Obj(ObjOf(
               putIf(Len(namedSchemas(doc)) > 0, "schemas",
                     serializeSchemas(namedSchemas(doc), doc))
               \o putIf(Len(doc.securitySchemes) > 0, "securitySchemes",
                        Obj(ObjOf([i \in 1..Len(doc.securitySchemes) |->
                                     Entry(doc.securitySchemes[i].v.name,
                                           serializeSecurityScheme(
                                             doc.securitySchemes[i].v))]))))))))

\* what a call returns, or the error it throws
Returned(value) == [threw |-> FALSE, value |-> value]

Threw(error) == [threw |-> TRUE, error |-> error]

serializeToYaml(doc) ==
  With(serializeDocument(doc),
       LAMBDA openapi : IF hasThrown(openapi) THEN Threw("RangeError")
                        ELSE Returned(YAMLstringify(openapi)))

(***************************************************************************)
(* lib/storage/serializer.ts: parseYaml.  A parse function gives           *)
(* Done(value, errors), the value it returns and the errors it pushes, or  *)
(* TypeErrorThrown when it reads a property of null or undefined or calls  *)
(* what is no function.  generateId() is the position the identifier is    *)
(* made for.  A field the code assigns null or undefined is a field the    *)
(* record does not have where the code only tests it for truth.            *)
(***************************************************************************)
Done(value, errors) == [threw |-> FALSE, value |-> value, errors |-> errors]

TypeErrorThrown == [threw |-> TRUE, error |-> "TypeError"]

anyThrew(outcomes) == \E i \in 1..Len(outcomes) : outcomes[i].threw

errorsOf(outcomes) == Flatten([i \in 1..Len(outcomes) |-> outcomes[i].errors])

valuesOf(outcomes) == [i \in 1..Len(outcomes) |-> outcomes[i].value]

\* the value as a field of the document holds it
raw(value) ==
  CASE value.t = "str" -> value.s
    [] value.t = "num" -> value.n
    [] value.t = "bool" -> value.b
    [] OTHER -> value

\* the field f holding value, or no field when value is null or undefined
withField(f, value) == IF isNullish(value) THEN <<>> ELSE (f :> raw(value))

\* the field f holding value when value is truthy
withTruthy(f, value) == IF truthy(value) THEN (f :> raw(value)) ELSE <<>>

\* the field f holding value when value !== undefined, for a field that holds
\* a number
withDefined(f, value) ==
  IF value.t = "undefined" THEN <<>>
  ELSE (f :> (IF value.t = "num" THEN value.n ELSE value))

\* the field f holding value when value !== undefined, for a field of type
\* unknown
withValue(f, value) == IF value.t = "undefined" THEN <<>> ELSE (f :> value)

\* the field f holding v when cond holds
withIf(cond, f, v) == IF cond THEN (f :> v) ELSE <<>>

\* v || d
orElse(value, d) == IF truthy(value) THEN raw(value) ELSE d

\* required.includes(propName) for an array
includesName(required, propName) ==
  required.t = "arr" /\ \E i \in 1..Len(required.v) : required.v[i] = Str(propName)

\* the determination of the schema type
schemaTypeOf(schemaData) ==
  IF truthy(Get(schemaData, "oneOf")) THEN "oneOf"
  ELSE IF truthy(Get(schemaData, "anyOf")) THEN "anyOf"
  ELSE IF truthy(Get(schemaData, "allOf")) THEN "allOf"
  ELSE IF truthy(Get(schemaData, "enum")) THEN "enum"
  ELSE IF Get(schemaData, "type") = Str("array") THEN "array"
  ELSE IF Get(schemaData, "type") = Str("string") THEN "string"
  ELSE IF Get(schemaData, "type") = Str("number") THEN "number"
  ELSE IF Get(schemaData, "type") = Str("integer") THEN "integer"
  ELSE IF Get(schemaData, "type") = Str("boolean") THEN "boolean"
  ELSE "object"

\* Object.entries(props) when type === 'object' && schemaData.properties
schemaProperties(data) ==
  IF schemaTypeOf(data) = "object" /\ truthy(Get(data, "properties"))
  THEN entries(Get(data, "properties")) ELSE <<>>

\* schemaData.required || []
schemaRequired(data) ==
  IF truthy(Get(data, "required")) THEN Get(data, "required") ELSE Arr(<<>>)

\* schemaData[type] for a composition
schemaVariants(data) ==
  IF schemaTypeOf(data) \in {"oneOf", "anyOf", "allOf"} THEN Get(data, schemaTypeOf(data))
  ELSE Undefined

\* an array as the document holds it, or the value that is no array
rawList(value) ==
  IF value.t = "arr" THEN [i \in 1..Len(value.v) |-> raw(value.v[i])] ELSE raw(value)

RECURSIVE parseSchema(_, _, _, _)
RECURSIVE parseSchemaOrRef(_, _, _)
\* name is <<>> for undefined; schemaNameToId is the map the module keeps
parseSchema(data, name, id, schemaNameToId) ==
  IF isNullish(data) THEN TypeErrorThrown
  ELSE
  With([properties |->
          [i \in 1..Len(schemaProperties(data)) |->
             parseSchemaOrRef(schemaProperties(data)[i].v,
                              Append(id, schemaProperties(data)[i].k), schemaNameToId)],
        items |->
          IF schemaTypeOf(data) = "array" /\ truthy(Get(data, "items"))
          THEN <<parseSchemaOrRef(Get(data, "items"), Append(id, "items"), schemaNameToId)>>
          ELSE <<>>,
        variants |->
          IF schemaVariants(data).t = "arr"
          THEN [i \in 1..Len(schemaVariants(data).v) |->
                  parseSchemaOrRef(schemaVariants(data).v[i], Append(id, ToString(i)),
                                   schemaNameToId)]
          ELSE <<>>],
       LAMBDA parsed :
         IF \/ anyThrew(parsed.properties) \/ anyThrew(parsed.items)
            \/ anyThrew(parsed.variants)
            \/ /\ Len(schemaProperties(data)) > 0
               /\ schemaRequired(data).t \notin {"arr", "str"}
         THEN TypeErrorThrown
         ELSE Done(
           [id |-> id, type |-> schemaTypeOf(data)]
           @@ withIf(name # <<>>, "name", name[1])
           @@ withField("description", Get(data, "description"))
           @@ withIf(schemaTypeOf(data) = "object" /\ truthy(Get(data, "properties")),
                     "properties",
                     [i \in 1..Len(schemaProperties(data)) |->
                        Entry(schemaProperties(data)[i].k,
                              [name |-> schemaProperties(data)[i].k,
                               schema |-> parsed.properties[i].value,
                               required |-> includesName(schemaRequired(data),
                                                         schemaProperties(data)[i].k)]
                              @@ withField("description",
                                           Get(schemaProperties(data)[i].v, "description")))])
           @@ withIf(schemaTypeOf(data) = "object" /\ truthy(Get(data, "properties")),
                     "required", rawList(schemaRequired(data)))
           @@ withIf(parsed.items # <<>>, "items", parsed.items[1].value)
           @@ withIf(schemaTypeOf(data) = "enum" /\ truthy(Get(data, "enum")),
                     "enumValues", rawList(Get(data, "enum")))
           @@ withIf(schemaVariants(data).t = "arr", "variants", valuesOf(parsed.variants))
           @@ withIf(schemaTypeOf(data) = "oneOf" /\ truthy(Get(data, "discriminator")),
                     "discriminator",
                     withField("propertyName",
                               Get(Get(data, "discriminator"), "propertyName")))
           @@ withTruthy("format", Get(data, "format"))
           @@ withDefined("minimum", Get(data, "minimum"))
           @@ withDefined("maximum", Get(data, "maximum"))
           @@ withDefined("minLength", Get(data, "minLength"))
           @@ withDefined("maxLength", Get(data, "maxLength"))
           @@ withTruthy("pattern", Get(data, "pattern"))
           @@ withValue("example", Get(data, "example"))
           @@ withValue("default", Get(data, "default")),
           errorsOf(parsed.properties) \o errorsOf(parsed.items)
           \o errorsOf(parsed.variants)))

\* refPath.match(...) for a $ref that is a string, <<>> for no match
refNameOf(data) ==
  IF truthy(Get(data, "$ref")) /\ Get(data, "$ref").t = "str"
  THEN refMatch(Get(data, "$ref").s) ELSE <<>>

\* parseSchemaOrRef without the test of targetId: a $ref of the right form
\* becomes a Ref edge whether or not its name was registered
parseSchemaOrRefUnchecked(data, inlineId, schemaNameToId) ==
  IF isNullish(data) THEN TypeErrorThrown
  ELSE IF refNameOf(data) # <<>>
  THEN Done(Ref(<<"schema", refNameOf(data)[1]>>), <<>>)
  ELSE With(parseSchema(data, <<>>, inlineId, schemaNameToId),
            LAMBDA inline :
              IF inline.threw THEN TypeErrorThrown
              ELSE Done(Inline(inline.value), inline.errors))

parseSchemaOrRef(data, inlineId, schemaNameToId) ==
  IF isNullish(data) THEN TypeErrorThrown
  ELSE IF refNameOf(data) # <<>> /\ MapHas(schemaNameToId, refNameOf(data)[1])
  THEN Done(Ref(MapGet(schemaNameToId, refNameOf(data)[1])), <<>>)
  ELSE With(parseSchema(data, <<>>, inlineId, schemaNameToId),
            LAMBDA inline :
              IF inline.threw THEN TypeErrorThrown
              ELSE Done(Inline(inline.value),
                        (IF refNameOf(data) # <<>>
                         THEN <<Diagnostic("UNRESOLVED_REF",
                                           <<"Unresolved reference: ", Get(data, "$ref").s>>,
                                           "warning", <<>>)>>
                         ELSE <<>>)
                        \o inline.errors))

parseInfo(info) ==
  Done([title |-> orElse(Get(info, "title"), "Untitled API"),
        version |-> orElse(Get(info, "version"), "1.0.0")]
       @@ withTruthy("description", Get(info, "description"))
       @@ withTruthy("termsOfService", Get(info, "termsOfService"))
       @@ withIf(truthy(Get(info, "contact")), "contact",
                 withField("name", Get(Get(info, "contact"), "name"))
                 @@ withField("url", Get(Get(info, "contact"), "url"))
                 @@ withField("email", Get(Get(info, "contact"), "email")))
       @@ withIf(truthy(Get(Get(info, "license"), "name")), "license",
                 [name |-> raw(Get(Get(info, "license"), "name"))]
                 @@ withField("url", Get(Get(info, "license"), "url"))),
       (IF ~truthy(Get(info, "title"))
        THEN <<Diagnostic("MISSING_TITLE", <<"Missing required \"info.title\"">>,
                          "warning", [path |-> <<"info", "title">>])>>
        ELSE <<>>)
       \o
       (IF ~truthy(Get(info, "version"))
        THEN <<Diagnostic("MISSING_VERSION", <<"Missing required \"info.version\"">>,
                          "warning", [path |-> <<"info", "version">>])>>
        ELSE <<>>))

parseSecurityScheme(name, schemeData, id) ==
  IF isNullish(schemeData) THEN TypeErrorThrown
  ELSE Done([id |-> id, name |-> name, type |-> orElse(Get(schemeData, "type"), "http")]
            @@ withTruthy("description", Get(schemeData, "description"))
            @@ withIf(orElse(Get(schemeData, "type"), "http") = "http", "scheme",
                      orElse(Get(schemeData, "scheme"), "bearer"))
            @@ (IF orElse(Get(schemeData, "type"), "http") = "http"
                THEN withTruthy("bearerFormat", Get(schemeData, "bearerFormat")) ELSE <<>>)
            @@ withIf(orElse(Get(schemeData, "type"), "http") = "apiKey", "in",
                      orElse(Get(schemeData, "in"), "header"))
            @@ withIf(orElse(Get(schemeData, "type"), "http") = "apiKey", "paramName",
                      orElse(Get(schemeData, "name"), "api_key"))
            @@ (IF orElse(Get(schemeData, "type"), "http") = "openIdConnect"
                THEN withField("openIdConnectUrl", Get(schemeData, "openIdConnectUrl"))
                ELSE <<>>),
            <<>>)

\* { schema: media.schema ? parseSchemaOrRef(media.schema) : inline object,
\*   example: media.example } for each entry of content
parseContent(content, id, schemaNameToId) ==
  With([i \in 1..Len(entries(content)) |->
          IF isNullish(entries(content)[i].v) THEN TypeErrorThrown
          ELSE IF truthy(Get(entries(content)[i].v, "schema"))
          THEN parseSchemaOrRef(Get(entries(content)[i].v, "schema"),
                                Append(id, entries(content)[i].k), schemaNameToId)
          ELSE Done(Inline([id |-> Append(id, entries(content)[i].k), type |-> "object"]),
                    <<>>)],
       LAMBDA medias :
         IF anyThrew(medias) THEN TypeErrorThrown
         ELSE Done([i \in 1..Len(medias) |->
                      Entry(entries(content)[i].k,
                            [schema |-> medias[i].value]
                            @@ withValue("example", Get(entries(content)[i].v, "example")))],
                   errorsOf(medias)))

parseParameter(paramData, id, schemaNameToId) ==
  IF isNullish(paramData) THEN TypeErrorThrown
  ELSE With(IF truthy(Get(paramData, "schema"))
            THEN parseSchemaOrRef(Get(paramData, "schema"), Append(id, "schema"),
                                  schemaNameToId)
            ELSE Done(Inline([id |-> Append(id, "schema"), type |-> "string"]), <<>>),
            LAMBDA schema :
              IF schema.threw THEN TypeErrorThrown
              ELSE Done([id |-> id,
                         name |-> orElse(Get(paramData, "name"), "param"),
                         in |-> orElse(Get(paramData, "in"), "query"),
                         required |-> orElse(Get(paramData, "required"), FALSE),
                         schema |-> schema.value]
                        @@ withField("description", Get(paramData, "description"))
                        @@ withValue("example", Get(paramData, "example")),
                        schema.errors))

\* data.content && typeof data.content === 'object'
hasContent(data) == truthy(Get(data, "content")) /\ isObjectType(Get(data, "content"))

parseRequestBody(data, id, schemaNameToId) ==
  With(IF hasContent(data) THEN parseContent(Get(data, "content"), id, schemaNameToId)
       ELSE Done(<<>>, <<>>),
       LAMBDA content :
         IF content.threw THEN TypeErrorThrown
         ELSE Done([id |-> id,
                    required |-> orElse(Get(data, "required"), FALSE),
                    content |-> content.value]
                   @@ withField("description", Get(data, "description")),
                   content.errors))

parseResponse(data, id, schemaNameToId) ==
  IF isNullish(data) THEN TypeErrorThrown
  ELSE With(IF hasContent(data) THEN parseContent(Get(data, "content"), id, schemaNameToId)
            ELSE Done(<<>>, <<>>),
            LAMBDA content :
              IF content.threw THEN TypeErrorThrown
              ELSE Done([id |-> id,
                         description |-> orElse(Get(data, "description"), "Response")]
                        @@ withIf(hasContent(data), "content", content.value),
                        content.errors))

\* method.toLowerCase()
toLowerCase(method) ==
  CASE method = "GET" -> "get" [] method = "POST" -> "post" [] OTHER -> method

isHttpMethod(method) ==
  toLowerCase(method) \in {"get", "post", "put", "delete", "patch", "options", "head"}

\* Object.entries(data.responses) when data.responses is an object
operationResponses(data) ==
  IF truthy(Get(data, "responses")) /\ isObjectType(Get(data, "responses"))
  THEN entries(Get(data, "responses")) ELSE <<>>

\* the identifier made for the route of a path and a method
routeIdOf(path, method) == <<"route", path, method>>

parseOperation(path, method, data, schemaNameToId) ==
  With([parameters |->
          IF truthy(Get(data, "parameters")) /\ Get(data, "parameters").t = "arr"
          THEN [i \in 1..Len(Get(data, "parameters").v) |->
                  parseParameter(Get(data, "parameters").v[i],
                                 routeIdOf(path, method) \o <<"parameters", ToString(i)>>,
                                 schemaNameToId)]
          ELSE <<>>,
        requestBody |->
          IF truthy(Get(data, "requestBody"))
          THEN <<parseRequestBody(Get(data, "requestBody"),
                                  Append(routeIdOf(path, method), "requestBody"),
                                  schemaNameToId)>>
          ELSE <<>>,
        responses |->
          [i \in 1..Len(operationResponses(data)) |->
             parseResponse(operationResponses(data)[i].v,
                           routeIdOf(path, method)
                           \o <<"responses", operationResponses(data)[i].k>>,
                           schemaNameToId)]],
       LAMBDA parsed :
         IF \/ anyThrew(parsed.parameters) \/ anyThrew(parsed.requestBody)
            \/ anyThrew(parsed.responses)
         THEN TypeErrorThrown
         ELSE Done(
           [id |-> routeIdOf(path, method), path |-> pathOfText(path), method |-> method,
            tags |-> IF truthy(Get(data, "tags")) THEN rawList(Get(data, "tags")) ELSE <<>>,
            parameters |-> valuesOf(parsed.parameters),
            responses |->
              IF Len(parsed.responses) = 0
              THEN <<Entry("200", [id |-> routeIdOf(path, method) \o <<"responses", "200">>,
                                   description |-> "Successful response"])>>
              ELSE [i \in 1..Len(parsed.responses) |->
                      Entry(operationResponses(data)[i].k, parsed.responses[i].value)]]
           @@ withTruthy("summary", Get(data, "summary"))
           @@ withTruthy("description", Get(data, "description"))
           @@ withTruthy("operationId", Get(data, "operationId"))
           @@ withIf(truthy(Get(data, "deprecated")), "deprecated", TRUE)
           @@ withIf(parsed.requestBody # <<>>, "requestBody", parsed.requestBody[1].value),
           errorsOf(parsed.parameters) \o errorsOf(parsed.requestBody)
           \o errorsOf(parsed.responses)))

\* openapi.startsWith('3.')
startsWith3(openapi) == openapi \in {"3.0.0", "3.0.3", "3.1.0"}

\* list.filter((s) => s && s[key]).map((s) => ({ [key], description }))
parseLabelled(list, key) ==
  With(SelectSeq(list.v, LAMBDA item : truthy(item) /\ truthy(Get(item, key))),
       LAMBDA kept :
         [i \in 1..Len(kept) |->
            (key :> raw(Get(kept[i], key)))
            @@ withField("description", Get(kept[i], "description"))])

\* the first pass: schemaNameToId after every schema name is registered
registerSchemaNames(schemas) ==
  IF truthy(schemas)
  THEN [i \in 1..Len(entries(schemas)) |->
          Entry(entries(schemas)[i].k, <<"schema", entries(schemas)[i].k>>)]
  ELSE <<>>

\* the operations of one path item that the loop over its methods parses
pathOperations(path, pathItem) ==
  With(SelectSeq(entries(pathItem),
                 LAMBDA e : isHttpMethod(e.k) /\ truthy(e.v) /\ isObjectType(e.v)),
       LAMBDA kept :
         [j \in 1..Len(kept) |-> [path |-> path, method |-> kept[j].k, data |-> kept[j].v]])

\* the operations that the loop over parsed.paths parses, in its order
operationsOf(paths) ==
  IF truthy(paths)
  THEN With(SelectSeq(entries(paths), LAMBDA e : truthy(e.v) /\ isObjectType(e.v)),
            LAMBDA pathItems :
              Flatten([i \in 1..Len(pathItems) |->
                         pathOperations(pathItems[i].k, pathItems[i].v)]))
  ELSE <<>>

\* parseYaml from the validation of the version on, for a mapping that was
\* decoded; the result with document: null has no document
parseDocument(parsed, schemaNameToId, operations) ==
  With([info |->
          IF truthy(Get(parsed, "info")) THEN parseInfo(Get(parsed, "info"))
          ELSE Done(createEmptyDocument("doc").info,
                    <<Diagnostic("MISSING_INFO", <<"Missing required \"info\" object">>,
                                 "error", [path |-> <<"info">>])>>),
        schemas |->
          [i \in 1..Len(schemaNameToId) |->
             parseSchema(entries(Get(Get(parsed, "components"), "schemas"))[i].v,
                         <<schemaNameToId[i].k>>, schemaNameToId[i].v, schemaNameToId)],
        securitySchemes |->
          IF truthy(Get(Get(parsed, "components"), "securitySchemes"))
          THEN [i \in 1..Len(entries(Get(Get(parsed, "components"), "securitySchemes"))) |->
                  parseSecurityScheme(
                    entries(Get(Get(parsed, "components"), "securitySchemes"))[i].k,
                    entries(Get(Get(parsed, "components"), "securitySchemes"))[i].v,
                    <<"scheme",
                      entries(Get(Get(parsed, "components"), "securitySchemes"))[i].k>>)]
          ELSE <<>>,
        routes |->
          [i \in 1..Len(operations) |->
             parseOperation(operations[i].path, operations[i].method, operations[i].data,
                            schemaNameToId)]],
       LAMBDA outcomes :
         IF \/ anyThrew(outcomes.schemas) \/ anyThrew(outcomes.securitySchemes)
            \/ anyThrew(outcomes.routes)
         THEN Threw("TypeError")
         ELSE Returned(
           [document |->
              [createEmptyDocument("doc") EXCEPT
                 !.info = outcomes.info.value,
                 !.servers = IF /\ truthy(Get(parsed, "servers"))
                                /\ Get(parsed, "servers").t = "arr"
                             THEN parseLabelled(Get(parsed, "servers"), "url") ELSE @,
                 !.tags = IF truthy(Get(parsed, "tags")) /\ Get(parsed, "tags").t = "arr"
                          THEN parseLabelled(Get(parsed, "tags"), "name") ELSE @,
                 !.schemas = [i \in 1..Len(outcomes.schemas) |->
                                Entry(schemaNameToId[i].v, outcomes.schemas[i].value)],
                 !.securitySchemes = [i \in 1..Len(outcomes.securitySchemes) |->
                                        Entry(outcomes.securitySchemes[i].value.id,
                                              outcomes.securitySchemes[i].value)],
                 !.routes = [i \in 1..Len(outcomes.routes) |->
                               Entry(outcomes.routes[i].value.id,
                                     outcomes.routes[i].value)]],
            errors |->
              (IF \/ ~truthy(Get(parsed, "openapi"))
                  \/ ~startsWith3(Get(parsed, "openapi").s)
               THEN <<Diagnostic("INVALID_VERSION",
                                 <<"Unsupported OpenAPI version: ", Get(parsed, "openapi"),
                                   ". Only OpenAPI 3.x is supported.">>,
                                 "error", [path |-> <<"openapi">>])>>
               ELSE <<>>)
              \o outcomes.info.errors \o errorsOf(outcomes.schemas)
              \o errorsOf(outcomes.routes)]))

parseYaml(text) ==
  With(YAMLparse(text),
       LAMBDA decoded :
         IF ~decoded.ok
         THEN Returned([errors |->
                          <<Diagnostic("YAML_PARSE_ERROR", <<"Failed to parse YAML: ">>,
                                       "error", <<>>)>>])
         ELSE IF ~truthy(decoded.value) \/ ~isObjectType(decoded.value)
         THEN Returned([errors |->
                          <<Diagnostic("INVALID_DOCUMENT",
                                       <<"Document is empty or invalid">>, "error", <<>>)>>])
         ELSE IF /\ truthy(Get(decoded.value, "openapi"))
                 /\ Get(decoded.value, "openapi").t # "str"
         THEN Threw("TypeError")
         ELSE parseDocument(decoded.value,
                            registerSchemaNames(Get(Get(decoded.value, "components"),
                                                    "schemas")),
                            operationsOf(Get(decoded.value, "paths"))))

(***************************************************************************)
(* store.ts: getSchemaUsageCount.                                          *)
(***************************************************************************)
\* 1 when the edge is a Ref to id, as each count++ is guarded
isRefTo(schemaOrRef, id) ==
  IF schemaOrRef.kind = "ref" /\ schemaOrRef.targetId = id THEN 1 ELSE 0

RECURSIVE Sum(_)
Sum(counts) == IF counts = <<>> THEN 0 ELSE Head(counts) + Sum(Tail(counts))

\* what one route adds to count
routeUsageCount(route, id) ==
  Sum([j \in 1..Len(route.parameters) |-> isRefTo(route.parameters[j].schema, id)])
  + (IF Has(route, "requestBody") /\ Has(route.requestBody, "content")
     THEN Sum([j \in 1..Len(route.requestBody.content) |->
                 isRefTo(route.requestBody.content[j].v.schema, id)])
     ELSE 0)
  + Sum([j \in 1..Len(route.responses) |->
           IF Has(route.responses[j].v, "content")
           THEN Sum([k \in 1..Len(route.responses[j].v.content) |->
                       isRefTo(route.responses[j].v.content[k].v.schema, id)])
           ELSE 0])

\* what one schema adds to count
schemaUsageCount(schema, id) ==
  IF schema.id = id THEN 0
  ELSE (IF Has(schema, "properties")
        THEN Sum([j \in 1..Len(schema.properties) |->
                    isRefTo(schema.properties[j].v.schema, id)])
        ELSE 0)
       + (IF Has(schema, "items") THEN isRefTo(schema.items, id) ELSE 0)
       + (IF Has(schema, "variants")
          THEN Sum([j \in 1..Len(schema.variants) |-> isRefTo(schema.variants[j], id)])
          ELSE 0)

getSchemaUsageCount(state, id) ==
  Sum([i \in 1..Len(state.document.routes) |->
         routeUsageCount(state.document.routes[i].v, id)])
  + Sum([i \in 1..Len(state.document.schemas) |->
           schemaUsageCount(state.document.schemas[i].v, id)])

(***************************************************************************)
(* The inputs the operations are called with.                              *)
(***************************************************************************)
SchemaIds == {"s1", "s2"}

RouteIds == {"r1"}

ParamIds == {"p1"}

SecuritySchemeIds == {"k1"}

FieldNames == {"x", "y"}

StatusCodes == {"200", "404"}

ServerIndexes == {0, 1}

TagNames == {"t1"}

PathA == <<Lit("/a/"), Placeholder("id")>>

PathB == <<Lit("/b")>>

stringSchema(id) == createSchema(<<id>>, "string", null)

\* what the schema dialog passes to addSchema
NewSchemas ==
  {createSchema(<<"s1">>, "object", "A"), createSchema(<<"s2", "i2">>, "array", "B")}

\* what the schema editor passes to updateSchema
SchemaUpdates == {[name |-> "C"], [items |-> Ref("s1")]}

\* what the field dialog passes to addFieldToSchema
NewFields ==
  {[name |-> n, schema |-> Inline(stringSchema("i1")), required |-> r] :
     n \in FieldNames, r \in BOOLEAN}

\* what the field row passes to updateField
FieldUpdates == {[name |-> n] : n \in FieldNames} \cup {[required |-> r] : r \in BOOLEAN}

PathUsers == <<Lit("/users/"), Placeholder("id"), Lit("/orders/"), Placeholder("orderId")>>

\* the route the new-route dialog hands to addRoute: createRoute's route
\* with one path parameter per placeholder of the path; ids[1], ids[2] go
\* to createRoute, the next two to the first parameter and its schema, ...
handleCreateRoute(ids, path, method) ==
  LET route == createRoute(<<ids[1], ids[2]>>, path, method)
      found == pathParams(path)
  IN  IF found = <<>> THEN route
      ELSE [route EXCEPT !.parameters =
              [j \in 1..Len(found) |->
                 [id |-> ids[2 * j + 1], name |-> found[j].param, in |-> "path",
                  required |-> TRUE,
                  schema |-> Inline(createSchema(<<ids[2 * j + 2]>>, "string", null))]]]

NewRoutes == {handleCreateRoute(<<"r1", "resp1", "p0", "i4">>, PathA, "get")}

RouteUpdates == {[summary |-> "list"]}

NewParams ==
  {[id |-> "p1", name |-> "id", in |-> "path", required |-> TRUE, schema |-> Ref("s1")]}

ParamUpdates == {[required |-> FALSE]}

jsonContent(edge) == <<Entry("application/json", [schema |-> edge])>>

RequestBodies ==
  {<<>>, <<[id |-> "b1", required |-> TRUE, content |-> jsonContent(Ref("s2"))]>>}

NewResponses == {[id |-> "resp2", description |-> "Not found"]}

ResponseUpdates == {[description |-> "OK"]}

Servers == {[url |-> "https://api.example.com"]}

SecuritySchemes == {[id |-> "k1", name |-> "apiKey", type |-> "apiKey"]}

SecuritySchemeUpdates == {[description |-> "key"]}

Tags == {[name |-> "t1"]}

InfoUpdates == {[title |-> "Renamed API"]}

\* a document as the importer builds it: two named schemas, one of them
\* referenced by the other and by the route
SampleDocument ==
  [id |-> "doc1",
   info |-> [title |-> "Sample", version |-> "1.0.0"],
   servers |-> <<[url |-> "https://api.example.com"]>>,
   routes |-> <<Entry("r1",
      [createRoute(<<"r1", "resp1">>, PathA, "get") EXCEPT
         !.parameters = <<[id |-> "p1", name |-> "id", in |-> "path", required |-> TRUE,
                           schema |-> Ref("s1")]>>,
         !.responses = <<Entry("200", [id |-> "resp1", description |-> "OK",
                                       content |-> jsonContent(Ref("s2"))])>>])>>,
   schemas |-> <<
      Entry("s1", [id |-> "s1", type |-> "object", name |-> "A",
                   properties |-> <<Entry("x", [name |-> "x",
                                                schema |-> Inline(stringSchema("i1")),
                                                required |-> TRUE])>>,
                   required |-> <<"x">>]),
      Entry("s2", [id |-> "s2", type |-> "array", name |-> "B", items |-> Ref("s1")])>>,
   securitySchemes |-> <<>>,
   tags |-> <<>>]

\* a second document, as the import dialog hands it to setDocument
ImportedDocument ==
  [createEmptyDocument("doc2") EXCEPT
     !.info = [title |-> "Imported", version |-> "2.0.0"],
     !.routes = <<Entry("r1", createRoute(<<"r1", "resp1">>, PathB, "post"))>>]

\* documents loaded from storage
StoredDocuments == {SampleDocument}

ImportedDocuments == {ImportedDocument}

(***************************************************************************)
(* The state machine.                                                      *)
(***************************************************************************)
\* validation holds the result of the last validateDocument call, if any
NoValidation == <<>>

\* yamlContent is the text of the import dialog, parseResult what the last
\* parseYaml call did and exported what the last serializeToYaml call did
NoFile == yamlContent = <<>> /\ parseResult = <<>> /\ exported = <<>>

\* the persistence hook before it is mounted: its refs as useRef creates
\* them, no timer, no save under way and an empty repository
NoHook ==
  /\ documentRef = <<>>
  /\ renderedVersion = 0
  /\ initialLoadDone = FALSE
  /\ lastSavedVersion = -1
  /\ saveTimeout = <<>>
  /\ saving = <<>>
  /\ stored = <<>>

Init ==
  /\ document = createEmptyDocument("doc0")
  /\ documentVersion = 0
  /\ history = <<>>
  /\ historyIndex = -1
  /\ commandLog = <<>>
  /\ trace = <<[op |-> "create", args |-> <<>>, doc |-> createEmptyDocument("doc0")]>>
  /\ validation = NoValidation
  /\ NoFile
  /\ NoHook

\* the store takes the state a handler leaves
Store(state) ==
  /\ document' = state.document
  /\ documentVersion' = state.documentVersion
  /\ history' = state.history
  /\ historyIndex' = state.historyIndex
  /\ commandLog' = state.commandLog

\* trace records the operations that took effect since the session began,
\* each with its arguments and the document it left
Step(op, args, state) ==
  /\ Store(state)
  /\ trace' = IF state = State THEN trace
              ELSE Append(trace, [op |-> op, args |-> args, doc |-> state.document])
  /\ UNCHANGED <<validation, fileVars, hookVars>>

MayMutate == Len(commandLog) < MaxMutations /\ documentVersion < MaxOps

MayMove == documentVersion < MaxOps

SetDocument == MayMutate /\ \E doc \in ImportedDocuments : Step("setDocument", [doc |-> doc], setDocument(State, doc))

UpdateInfo == MayMutate /\ \E info \in InfoUpdates : Step("updateInfo", [info |-> info], updateInfo(State, info))

AddSchema == MayMutate /\ \E schema \in NewSchemas : Step("addSchema", [schema |-> schema], addSchema(State, schema))

UpdateSchema ==
  MayMutate /\ \E id \in SchemaIds, updates \in SchemaUpdates :
    Step("updateSchema", [id |-> id, updates |-> updates], updateSchema(State, id, updates))

DeleteSchema == MayMutate /\ \E id \in SchemaIds : Step("deleteSchema", [id |-> id], deleteSchema(State, id))

AddFieldToSchema ==
  MayMutate /\ \E schemaId \in SchemaIds, field \in NewFields :
    Step("addFieldToSchema", [schemaId |-> schemaId, field |-> field], addFieldToSchema(State, schemaId, field))

UpdateField ==
  MayMutate /\ \E schemaId \in SchemaIds, fieldName \in FieldNames, updates \in FieldUpdates :
    Step("updateField", [schemaId |-> schemaId, fieldName |-> fieldName, updates |-> updates], updateField(State, schemaId, fieldName, updates))

DeleteField ==
  MayMutate /\ \E schemaId \in SchemaIds, fieldName \in FieldNames :
    Step("deleteField", [schemaId |-> schemaId, fieldName |-> fieldName], deleteField(State, schemaId, fieldName))

AddRoute == MayMutate /\ \E route \in NewRoutes : Step("addRoute", [route |-> route], addRoute(State, route))

UpdateRoute ==
  MayMutate /\ \E id \in RouteIds, updates \in RouteUpdates :
    Step("updateRoute", [id |-> id, updates |-> updates], updateRoute(State, id, updates))

DeleteRoute == MayMutate /\ \E id \in RouteIds : Step("deleteRoute", [id |-> id], deleteRoute(State, id))

AddParameter ==
  MayMutate /\ \E routeId \in RouteIds, param \in NewParams :
    Step("addParameter", [routeId |-> routeId, param |-> param], addParameter(State, routeId, param))

UpdateParameter ==
  MayMutate /\ \E routeId \in RouteIds, paramId \in ParamIds, updates \in ParamUpdates :
    Step("updateParameter", [routeId |-> routeId, paramId |-> paramId, updates |-> updates], updateParameter(State, routeId, paramId, updates))

DeleteParameter ==
  MayMutate /\ \E routeId \in RouteIds, paramId \in ParamIds :
    Step("deleteParameter", [routeId |-> routeId, paramId |-> paramId], deleteParameter(State, routeId, paramId))

SetRequestBody ==
  MayMutate /\ \E routeId \in RouteIds, body \in RequestBodies :
    Step("setRequestBody", [routeId |-> routeId, body |-> body], setRequestBody(State, routeId, body))

AddResponse ==
  MayMutate /\ \E routeId \in RouteIds, statusCode \in StatusCodes, response \in NewResponses :
    Step("addResponse", [routeId |-> routeId, statusCode |-> statusCode, response |-> response], addResponse(State, routeId, statusCode, response))

UpdateResponse ==
  MayMutate /\ \E routeId \in RouteIds, statusCode \in StatusCodes, updates \in ResponseUpdates :
    Step("updateResponse", [routeId |-> routeId, statusCode |-> statusCode, updates |-> updates], updateResponse(State, routeId, statusCode, updates))

DeleteResponse ==
  MayMutate /\ \E routeId \in RouteIds, statusCode \in StatusCodes :
    Step("deleteResponse", [routeId |-> routeId, statusCode |-> statusCode], deleteResponse(State, routeId, statusCode))

AddServer == MayMutate /\ \E server \in Servers : Step("addServer", [server |-> server], addServer(State, server))

UpdateServer ==
  MayMutate /\ \E index \in ServerIndexes, server \in Servers :
    Step("updateServer", [index |-> index, server |-> server], updateServer(State, index, server))

DeleteServer ==
  MayMutate /\ \E index \in ServerIndexes : Step("deleteServer", [index |-> index], deleteServer(State, index))

AddSecurityScheme ==
  MayMutate /\ \E scheme \in SecuritySchemes :
    Step("addSecurityScheme", [scheme |-> scheme], addSecurityScheme(State, scheme))

UpdateSecurityScheme ==
  MayMutate /\ \E id \in SecuritySchemeIds, updates \in SecuritySchemeUpdates :
    Step("updateSecurityScheme", [id |-> id, updates |-> updates], updateSecurityScheme(State, id, updates))

DeleteSecurityScheme ==
  MayMutate /\ \E id \in SecuritySchemeIds :
    Step("deleteSecurityScheme", [id |-> id], deleteSecurityScheme(State, id))

AddTag == MayMutate /\ \E tag \in Tags : Step("addTag", [tag |-> tag], addTag(State, tag))

DeleteTag == MayMutate /\ \E name \in TagNames : Step("deleteTag", [name |-> name], deleteTag(State, name))

Undo == MayMove /\ Step("undo", <<>>, undo(State))

Redo == MayMove /\ Step("redo", <<>>, redo(State))

\* loading a project: the session starts again from the stored document
InitializeDocument ==
  \E doc \in StoredDocuments :
    /\ Store(initializeDocument(State, doc))
    /\ trace' = <<[op |-> "initializeDocument", args |-> <<>>, doc |-> doc]>>
    /\ UNCHANGED <<validation, fileVars, hookVars>>

Next ==
  \/ SetDocument \/ UpdateInfo
  \/ AddSchema \/ UpdateSchema \/ DeleteSchema
  \/ AddFieldToSchema \/ UpdateField \/ DeleteField
  \/ AddRoute \/ UpdateRoute \/ DeleteRoute
  \/ AddParameter \/ UpdateParameter \/ DeleteParameter
  \/ SetRequestBody
  \/ AddResponse \/ UpdateResponse \/ DeleteResponse
  \/ AddServer \/ UpdateServer \/ DeleteServer
  \/ AddSecurityScheme \/ UpdateSecurityScheme \/ DeleteSecurityScheme
  \/ AddTag \/ DeleteTag
  \/ Undo \/ Redo
  \/ InitializeDocument

Spec == Init /\ [][Next]_vars

(***************************************************************************)
(* The history capacity: one kind of mutation and undo, for as many        *)
(* operations as it takes to fill the history.  The trace is not kept.     *)
(***************************************************************************)
CapStep(state) == Store(state) /\ UNCHANGED <<trace, validation, fileVars, hookVars>>

CapAddTag == documentVersion < MaxCapOps /\ \E tag \in Tags : CapStep(addTag(State, tag))

CapUndo == documentVersion < MaxCapOps /\ CapStep(undo(State))

NextCap == CapAddTag \/ CapUndo

SpecCap == Init /\ [][NextCap]_vars

(***************************************************************************)
(* The validator as a function of the document: every document of a        *)
(* bounded family, validated once.                                         *)
(***************************************************************************)
InlineArray(edge) == Inline([id |-> "i1", type |-> "array", items |-> edge])

InlineObject(edge) ==
  Inline([id |-> "i2", type |-> "object",
          properties |-> <<Entry("y", [name |-> "y", schema |-> edge, required |-> FALSE])>>,
          required |-> <<>>])

InlineAllOf(edge) ==
  Inline([id |-> "i3", type |-> "allOf", variants |-> <<edge, Ref("gone")>>])

Wrap(edges) ==
  {InlineArray(e) : e \in edges} \cup {InlineObject(e) : e \in edges}
  \cup {InlineAllOf(e) : e \in edges}

\* the edges nested exactly depth inline schemas deep
RECURSIVE EdgesAt(_)
EdgesAt(depth) ==
  IF depth = 0 THEN {Ref("s1"), Ref("s2")} ELSE Wrap(EdgesAt(depth - 1))

EdgesUpTo(depth) == UNION {EdgesAt(d) : d \in 0..depth}

\* schema s1 with one property, optionally schema s2, and a route whose
\* parameter, request body and two response media types each carry an edge
ValidatedDocument(fieldEdge, withS2, paramEdge, body, responseEdge) ==
  LET route == createRoute(<<"r1", "resp1">>, PathA, "get")
      routeWithBody == IF body = <<>> THEN route ELSE [requestBody |-> body[1]] @@ route
  IN  [id |-> "doc3",
       info |-> [title |-> "Sample", version |-> "1.0.0"],
       servers |-> <<>>,
       routes |-> <<Entry("r1",
          [routeWithBody EXCEPT
             !.parameters = <<[id |-> "p1", name |-> "id", in |-> "path",
                               required |-> TRUE, schema |-> paramEdge]>>,
             !.responses = <<Entry("200",
                [id |-> "resp1", description |-> "OK",
                 content |-> <<Entry("application/json", [schema |-> responseEdge]),
                               Entry("text/plain", [schema |-> Ref("s2")])>>])>>])>>,
       schemas |->
         <<Entry("s1", [id |-> "s1", type |-> "object", name |-> "A",
                        properties |-> <<Entry("x", [name |-> "x", schema |-> fieldEdge,
                                                     required |-> FALSE])>>,
                        required |-> <<>>])>>
         \o (IF withS2
              THEN <<Entry("s2", [id |-> "s2", type |-> "array", name |-> "B",
                                  items |-> Ref("s1")])>>
              ELSE <<>>),
       securitySchemes |-> <<>>,
       tags |-> <<>>]

ValidatedDocuments ==
  {ValidatedDocument(fieldEdge, withS2, paramEdge, body, responseEdge) :
     fieldEdge \in EdgesUpTo(MaxDepth), withS2 \in BOOLEAN,
     paramEdge \in EdgesUpTo(MaxDepth - 1),
     body \in {<<>>} \cup {<<[id |-> "b1", required |-> TRUE, content |-> jsonContent(e)]>> :
                              e \in EdgesAt(0)},
     responseEdge \in EdgesAt(0)}

\* the edges of the reference graphs: to each schema, to no schema, and to
\* a schema from inside an inline schema
GraphEdges ==
  {Ref("s1"), Ref("s2"), Ref("s3"), Ref("gone"), Inline(stringSchema("i0")),
   InlineObject(Ref("s1")), InlineArray(Ref("s2"))}

\* three top-level schemas that refer to each other, the third with or
\* without a name, and a route whose parameter carries an edge
GraphDocument(edge1x, edge1y, edge2, edge3, name3, paramEdge) ==
  [id |-> "doc4",
   info |-> [title |-> "Graph", version |-> "1.0.0"],
   servers |-> <<>>,
   routes |-> <<Entry("r1",
      [createRoute(<<"r1", "resp1">>, PathB, "get") EXCEPT
         !.parameters = <<[id |-> "p1", name |-> "q", in |-> "query",
                           required |-> FALSE, schema |-> paramEdge]>>])>>,
   schemas |->
     <<Entry("s1", [id |-> "s1", type |-> "object", name |-> "A",
                    properties |-> <<Entry("x", [name |-> "x", schema |-> edge1x,
                                                 required |-> FALSE]),
                                     Entry("y", [name |-> "y", schema |-> edge1y,
                                                 required |-> FALSE])>>,
                    required |-> <<>>]),
       Entry("s2", [id |-> "s2", type |-> "anyOf", name |-> "B",
                    variants |-> <<edge2>>]),
       Entry("s3", [items |-> edge3] @@ createSchema(<<"s3", "i3">>, "array", name3))>>,
   securitySchemes |-> <<>>,
   tags |-> <<>>]

GraphDocuments ==
  {GraphDocument(edge1x, edge1y, edge2, edge3, name3, paramEdge) :
     edge1x \in GraphEdges, edge1y \in GraphEdges, edge2 \in GraphEdges,
     edge3 \in GraphEdges, name3 \in {"C", "", null},
     paramEdge \in {Ref("s1"), Ref("s3"), Inline(stringSchema("i0"))}}

\* a new document with one route, as createRoute returns it or as the
\* new-route dialog completes it
CreatedRouteDocuments ==
  {[createEmptyDocument("doc5") EXCEPT !.routes = <<Entry(route.id, route)>>] :
     route \in UNION {{createRoute(<<"r1", "resp1">>, path, method),
                       handleCreateRoute(<<"r2", "resp1", "p1", "i1", "p2", "i2">>,
                                         path, method)} :
                        path \in {PathA, PathB, PathUsers}, method \in {"get", "post"}}}

InitValidate ==
  /\ document \in ValidatedDocuments \cup GraphDocuments \cup CreatedRouteDocuments
  /\ documentVersion = 0
  /\ history = <<>>
  /\ historyIndex = -1
  /\ commandLog = <<>>
  /\ trace = <<[op |-> "initializeDocument", args |-> <<>>, doc |-> document]>>
  /\ validation = NoValidation
  /\ NoFile
  /\ NoHook

Validate ==
  /\ validation = NoValidation
  /\ validation' = <<validateDocument(document)>>
  /\ UNCHANGED <<storeVars, trace, fileVars, hookVars>>

NextValidate == Validate

SpecValidate == InitValidate /\ [][NextValidate]_vars

(***************************************************************************)
(* Import and export: a document of the store is exported, a text is       *)
(* imported, and what one call produced the other may take.                *)
(***************************************************************************)
\* a document with every top-level part: servers, tags, a security scheme,
\* named schemas and a route
FullDocument ==
  [SampleDocument EXCEPT
     !.tags = <<[name |-> "t1", description |-> "first"]>>,
     !.securitySchemes = <<Entry("k1", [id |-> "k1", name |-> "apiKey", type |-> "apiKey"])>>]

\* the documents of the store that are exported: reference graphs with a
\* dangling edge, with edges to the unnamed schema and with cycles, new
\* routes, and documents with servers, tags and named schemas
ExportDocuments ==
  {GraphDocument(edge1x, Inline(stringSchema("i0")), edge2, edge3, name3, paramEdge) :
     edge1x \in GraphEdges, edge2 \in {Ref("s1"), Ref("s3")},
     edge3 \in {Ref("s1"), Ref("s3"), Inline(stringSchema("i0"))},
     name3 \in {"C", "", null},
     paramEdge \in {Ref("s1"), Ref("s3"), Inline(stringSchema("i0"))}}
    \cup CreatedRouteDocuments
    \cup {SampleDocument, ImportedDocument, FullDocument, createEmptyDocument("doc0")}

stringValue == Obj(<<Entry("type", Str("string"))>>)

refValue(name) == Obj(<<Entry("$ref", Str(refText(name)))>>)

objectValue(more) ==
  Obj(ObjOf(<<Entry("type", Str("object")),
              Entry("properties", Obj(<<Entry("x", stringValue),
                                        Entry("y", refValue("B"))>>)),
              Entry("required", Arr(<<Str("x")>>))>> \o more))

\* the bodies of the schema named A
SchemaBodies ==
  {Null,
   objectValue(<<>>),
   objectValue(<<Entry("description", Str("an A"))>>),
   objectValue(<<Entry("example", Obj(<<Entry("x", Str("v"))>>))>>),
   Obj(<<Entry("type", Str("string")), Entry("minLength", Num(1)),
         Entry("example", Str("v"))>>),
   Obj(<<Entry("type", Str("array")), Entry("items", refValue("B"))>>),
   Obj(<<Entry("oneOf", Arr(<<refValue("B"), stringValue>>))>>),
   Obj(<<Entry("enum", Arr(<<Str("a"), Str("b")>>))>>),
   Obj(<<Entry("type", Str("object")),
         Entry("properties", Obj(<<Entry("x", refValue("Gone"))>>))>>),
   Obj(<<Entry("type", Str("array")),
         Entry("items", Obj(<<Entry("$ref", Str("#/definitions/B"))>>))>>)}

\* the entries of a parameters array
ParameterValues ==
  {<<>>,
   <<Null>>,
   <<Obj(<<Entry("name", Str("id")), Entry("in", Str("path")), Entry("required", Bool(TRUE)),
           Entry("schema", stringValue)>>)>>,
   <<Obj(<<Entry("name", Str("q")), Entry("in", Str("query")),
           Entry("schema", refValue("A"))>>)>>}

operationValue(parameters) ==
  Obj((IF parameters = <<>> THEN <<>> ELSE <<Entry("parameters", Arr(parameters))>>)
      \o <<Entry("responses",
                 Obj(ObjOf(<<Entry("404", Obj(<<Entry("description", Str("Not found"))>>)),
                             Entry("200", Obj(<<Entry("description", Str("OK")),
                                                Entry("content",
                                                      Obj(<<Entry("application/json",
                                                                  Obj(<<Entry("schema",
                                                                              refValue("A"))>>))>>))>>))>>)))>>)

\* the decoded root of an OpenAPI text; openapi and info are <<>> when the
\* text has none
RootValue(openapi, info, schemaBody, parameters, full) ==
  Obj((IF openapi = <<>> THEN <<>> ELSE <<Entry("openapi", openapi[1])>>)
      \o (IF info = <<>> THEN <<>> ELSE <<Entry("info", info[1])>>)
      \o (IF full
          THEN <<Entry("servers", Arr(<<Obj(<<Entry("url", Str("https://api.example.com"))>>),
                                        Null>>)),
                 Entry("tags", Arr(<<Obj(<<Entry("name", Str("t1")),
                                           Entry("description", Str("first"))>>)>>))>>
          ELSE <<>>)
      \o <<Entry("paths",
                 Obj((IF full
                      THEN <<Entry("/b", Obj(<<Entry("post", operationValue(<<>>)),
                                               Entry("summary", Str("b"))>>))>>
                      ELSE <<>>)
                     \o <<Entry("/a/{id}", Obj(<<Entry("get", operationValue(parameters))>>))>>)),
           Entry("components",
                 Obj(<<Entry("schemas",
                             Obj(<<Entry("A", schemaBody),
                                   Entry("B", Obj(<<Entry("type", Str("string")),
                                                    Entry("format", Str("uuid"))>>))>>))>>
                     \o (IF full
                         THEN <<Entry("securitySchemes",
                                      Obj(<<Entry("apiKey",
                                                  Obj(<<Entry("type", Str("apiKey")),
                                                        Entry("in", Str("header")),
                                                        Entry("name", Str("X-Key"))>>))>>))>>
                         ELSE <<>>)))>>)

RootValues ==
  {RootValue(openapi, info, schemaBody, parameters, full) :
     openapi \in {<<>>, <<Str("3.0.3")>>, <<Str("2.0")>>, <<Num(3)>>},
     info \in {<<>>,
               <<Obj(<<Entry("title", Str("Sample")), Entry("version", Str("1.0.0"))>>)>>,
               <<Obj(<<Entry("title", Str("Sample"))>>)>>,
               <<Obj(<<Entry("version", Str("2.1"))>>)>>},
     schemaBody \in SchemaBodies, parameters \in ParameterValues, full \in BOOLEAN}

\* the decoded root of a text whose schema A refers to itself and to B, which
\* is declared after A and refers back to A
CycleRootValue ==
  Obj(<<Entry("openapi", Str("3.0.3")),
        Entry("info", Obj(<<Entry("title", Str("Sample")), Entry("version", Str("1.0.0"))>>)),
        Entry("paths",
              Obj(<<Entry("/a/{id}",
                          Obj(<<Entry("get",
                                      operationValue(
                                        <<Obj(<<Entry("name", Str("q")),
                                                Entry("in", Str("query")),
                                                Entry("schema", refValue("A"))>>)>>))>>))>>)),
        Entry("components",
              Obj(<<Entry("schemas",
                          Obj(<<Entry("A", Obj(<<Entry("type", Str("object")),
                                                 Entry("properties",
                                                       Obj(<<Entry("self", refValue("A")),
                                                             Entry("next", refValue("B"))>>))>>)),
                                Entry("B", Obj(<<Entry("type", Str("array")),
                                                 Entry("items", refValue("A"))>>))>>))>>))>>)

\* the tokens of "openapi: 2.0\ninfo:\n  title: X\npaths: {}": the plain scalar
\* 2.0 is a float
VersionTwoText ==
  <<Token("{"), KeyToken("openapi"), ScalarToken(Num(2)),
    KeyToken("info"), Token("{"), KeyToken("title"), ScalarToken(Str("X")), Token("}"),
    KeyToken("paths"), Token("{"), Token("}"), Token("}")>>

\* the texts of the import dialog: OpenAPI texts, texts of a scalar, of null
\* and of a sequence, the empty text, and texts that are no YAML
YamlTexts ==
  {YAMLstringify(value) :
     value \in RootValues \cup {Str("hello"), Num(42), Null, Arr(<<>>), Arr(<<Str("a")>>),
                                Obj(<<>>)}}
    \cup {VersionTwoText, YAMLstringify(CycleRootValue)}
    \cup {<<>>, <<Token("{")>>, <<Token("{"), KeyToken("a"), Token("}")>>,
          <<Token("{"), KeyToken("a"), ScalarToken(Str("1")),
            KeyToken("a"), ScalarToken(Str("2")), Token("}")>>}

InitYaml ==
  /\ \/ document \in ExportDocuments /\ yamlContent = <<>>
     \/ document = createEmptyDocument("doc0") /\ yamlContent \in YamlTexts
  /\ documentVersion = 0
  /\ history = <<>>
  /\ historyIndex = -1
  /\ commandLog = <<>>
  /\ trace = <<[op |-> "initializeDocument", args |-> <<>>, doc |-> document]>>
  /\ validation = NoValidation
  /\ parseResult = <<>>
  /\ exported = <<>>
  /\ NoHook

\* app/page.tsx: handleExport; the file it saves is a text to import next
HandleExport ==
  /\ exported = <<>>
  /\ exported' = <<serializeToYaml(document)>>
  /\ yamlContent' = IF exported'[1].threw THEN yamlContent ELSE exported'[1].value
  /\ UNCHANGED <<storeVars, trace, validation, parseResult, hookVars>>

\* import-dialog.tsx: handleImport
HandleImport ==
  /\ parseResult = <<>>
  /\ parseResult' = <<parseYaml(yamlContent)>>
  /\ IF ~parseResult'[1].threw /\ Has(parseResult'[1].value, "document")
     THEN /\ Store(setDocument(State, parseResult'[1].value.document))
          /\ trace' = Append(trace, [op |-> "setDocument",
                                     args |-> [doc |-> parseResult'[1].value.document],
                                     doc |-> parseResult'[1].value.document])
          /\ UNCHANGED <<validation, yamlContent, exported, hookVars>>
     ELSE UNCHANGED <<storeVars, trace, validation, yamlContent, exported, hookVars>>

NextYaml == HandleExport \/ HandleImport

SpecYaml == InitYaml /\ [][NextYaml]_vars

(***************************************************************************)
(* Properties of the undo history.                                         *)
(***************************************************************************)
MutationOps ==
  {"setDocument", "updateInfo", "addSchema", "updateSchema", "deleteSchema",
   "addFieldToSchema", "updateField", "deleteField", "addRoute", "updateRoute",
   "deleteRoute", "addParameter", "updateParameter", "deleteParameter",
   "setRequestBody", "addResponse", "updateResponse", "deleteResponse",
   "addServer", "updateServer", "deleteServer", "addSecurityScheme",
   "updateSecurityScheme", "deleteSecurityScheme", "addTag", "deleteTag"}

\* the session so far: a first document with an empty history, n mutations,
\* then n undos
MutationsThenUndos(n) ==
  /\ Len(trace) = 2 * n + 1
  /\ \A i \in 2..(n + 1) : trace[i].op \in MutationOps
  /\ \A i \in (n + 2)..(2 * n + 1) : trace[i].op = "undo"

\* C1: after n mutations of a document d0 with an empty history, n undos
\* make the current document equal to d0.
C1_UndoRestoresInitial ==
  \A n \in 1..Len(trace) : MutationsThenUndos(n) => document = trace[1].doc

C1_Witness ==
  /\ MutationsThenUndos(2)
  /\ trace[2].doc # trace[1].doc
  /\ trace[3].doc # trace[2].doc

RECURSIVE redoTimes(_, _)
redoTimes(state, n) == IF n = 0 THEN state ELSE redoTimes(redo(state), n - 1)

\* C2: after n mutations and n undos, n redos make the current document
\* equal to the document the n mutations produced.
C2_RedoRestoresMutated ==
  \A n \in 1..Len(trace) :
    MutationsThenUndos(n) => redoTimes(State, n).document = trace[n + 1].doc

\* C3: an operation whose target does not exist in the current document
\* leaves the state of the store as it is.
C3_MissingTargetIsNoOp ==
  /\ \A id \in SchemaIds : ~MapHas(document.schemas, id) =>
       /\ deleteSchema(State, id) = State
       /\ \A updates \in SchemaUpdates : updateSchema(State, id, updates) = State
       /\ \A field \in NewFields : addFieldToSchema(State, id, field) = State
       /\ \A fieldName \in FieldNames :
            /\ deleteField(State, id, fieldName) = State
            /\ \A updates \in FieldUpdates : updateField(State, id, fieldName, updates) = State
  /\ \A id \in SchemaIds, fieldName \in FieldNames :
       (/\ MapHas(document.schemas, id)
        /\ Has(MapGet(document.schemas, id), "properties")
        /\ ~MapHas(MapGet(document.schemas, id).properties, fieldName)) =>
       /\ deleteField(State, id, fieldName) = State
       /\ \A updates \in FieldUpdates : updateField(State, id, fieldName, updates) = State
  /\ \A id \in RouteIds : ~MapHas(document.routes, id) =>
       /\ deleteRoute(State, id) = State
       /\ \A updates \in RouteUpdates : updateRoute(State, id, updates) = State
       /\ \A param \in NewParams : addParameter(State, id, param) = State
       /\ \A body \in RequestBodies : setRequestBody(State, id, body) = State
       /\ \A statusCode \in StatusCodes : deleteResponse(State, id, statusCode) = State
  /\ \A id \in RouteIds, paramId \in ParamIds :
       (/\ MapHas(document.routes, id)
        /\ \A i \in 1..Len(MapGet(document.routes, id).parameters) :
             MapGet(document.routes, id).parameters[i].id # paramId) =>
       /\ deleteParameter(State, id, paramId) = State
       /\ \A updates \in ParamUpdates : updateParameter(State, id, paramId, updates) = State
  /\ \A id \in RouteIds, statusCode \in StatusCodes :
       (/\ MapHas(document.routes, id)
        /\ ~MapHas(MapGet(document.routes, id).responses, statusCode)) =>
       /\ deleteResponse(State, id, statusCode) = State
       /\ \A updates \in ResponseUpdates :
            updateResponse(State, id, statusCode, updates) = State
  /\ \A id \in SecuritySchemeIds : ~MapHas(document.securitySchemes, id) =>
       /\ deleteSecurityScheme(State, id) = State
       /\ \A updates \in SecuritySchemeUpdates :
            updateSecurityScheme(State, id, updates) = State
  /\ \A name \in TagNames :
       (\A i \in 1..Len(document.tags) : document.tags[i].name # name) =>
       deleteTag(State, name) = State
  /\ \A index \in ServerIndexes : index >= Len(document.servers) =>
       /\ deleteServer(State, index) = State
       /\ \A server \in Servers : updateServer(State, index, server) = State

\* C4: the history never holds more than maxHistorySize snapshots, whatever
\* the kind of the mutations that fill it.
C4_HistoryBounded == Len(history) <= maxHistorySize

\* C5: once setDocument or initializeDocument has replaced the document, the
\* undo history is empty: canUndo() is false and undo changes nothing.
C5_ReplacementClearsHistory ==
  Last(trace).op \in {"setDocument", "initializeDocument"} =>
    /\ history = <<>>
    /\ ~canUndo(State)
    /\ undo(State).document = document

\* the required list of an object schema mirrors the required flags of its
\* properties and names no property the schema does not have
RequiredConsistent(schema) ==
  (schema.type = "object" /\ Has(schema, "properties")) =>
    LET req == IF Has(schema, "required") THEN schema.required ELSE <<>>
    IN  /\ \A i \in 1..Len(schema.properties) :
             includes(req, schema.properties[i].k) <=> schema.properties[i].v.required
        /\ \A j \in 1..Len(req) : MapHas(schema.properties, req[j])

\* C6: in every object schema of the current document, a property name is in
\* the required list exactly when the property's required flag is set, and
\* the required list names only properties of the schema.
C6_RequiredMirrorsFlags ==
  \A i \in 1..Len(document.schemas) : RequiredConsistent(document.schemas[i].v)

\* C7: every route of the current document has at least one response.
C7_EveryRouteHasResponse ==
  \A i \in 1..Len(document.routes) : Len(document.routes[i].v.responses) >= 1

\* C8: right after a mutation that follows one or more undos there is no
\* forward snapshot: canRedo() is false and redo leaves the document as it is.
C8_MutationDiscardsRedo ==
  (/\ Last(trace).op \in MutationOps
   /\ \E i \in 1..Len(trace) : trace[i].op = "undo") =>
    /\ ~canRedo(State)
    /\ Len(history) = historyIndex + 1
    /\ redo(State).document = document

C8_Witness ==
  /\ Len(trace) >= 4
  /\ Last(trace).op \in MutationOps
  /\ trace[Len(trace) - 1].op = "undo"
  /\ trace[Len(trace) - 2].op \in MutationOps
  /\ trace[Len(trace) - 2].doc # document

\* C9: deleteSchema(id) takes the entry of id out of the schema map and
\* leaves every other schema, every route and every other part of the
\* document as it was, Ref edges to id included.
C9_DeleteSchemaFrame ==
  (Len(trace) >= 2 /\ Last(trace).op = "deleteSchema") =>
    LET id == Last(trace).args.id
        before == trace[Len(trace) - 1].doc
    IN  /\ MapKeys(document.schemas) = MapKeys(before.schemas) \ {id}
        /\ \A k \in MapKeys(document.schemas) :
             MapGet(document.schemas, k) = MapGet(before.schemas, k)
        /\ DOMAIN document = DOMAIN before
        /\ \A f \in DOMAIN before \ {"schemas"} : document[f] = before[f]

\* a deleted schema that a route parameter and an array schema still refer to
C9_Witness ==
  /\ Len(trace) >= 2
  /\ Last(trace).op = "deleteSchema"
  /\ MapHas(trace[Len(trace) - 1].doc.schemas, Last(trace).args.id)
  /\ \E i \in 1..Len(document.routes) :
       \E j \in 1..Len(document.routes[i].v.parameters) :
         document.routes[i].v.parameters[j].schema = Ref(Last(trace).args.id)
  /\ \E i \in 1..Len(document.schemas) :
       /\ Has(document.schemas[i].v, "items")
       /\ document.schemas[i].v.items = Ref(Last(trace).args.id)

(***************************************************************************)
(* Properties of the validator.                                            *)
(***************************************************************************)
\* the Ref edges below an edge, each with the steps that lead to it
RECURSIVE RefEdges(_, _)
RECURSIVE SchemaRefEdges(_, _)
RefEdges(schemaOrRef, at) ==
  IF schemaOrRef.kind = "ref" THEN {[at |-> at, targetId |-> schemaOrRef.targetId]}
  ELSE SchemaRefEdges(schemaOrRef.schema, at)

SchemaRefEdges(schema, at) ==
  (IF Has(schema, "properties")
   THEN UNION {RefEdges(e.v.schema, at \o <<"properties", e.k>>) :
                 e \in {schema.properties[i] : i \in 1..Len(schema.properties)}}
   ELSE {})
  \cup (IF Has(schema, "items") THEN RefEdges(schema.items, at \o <<"items">>) ELSE {})
  \cup (IF Has(schema, "variants")
        THEN UNION {RefEdges(schema.variants[i], at \o <<"variants", i>>) :
                      i \in 1..Len(schema.variants)}
        ELSE {})

RouteRefEdges(route) ==
  UNION {RefEdges(route.parameters[i].schema, <<"parameters", i>>) :
           i \in 1..Len(route.parameters)}
  \cup (IF Has(route, "requestBody")
        THEN UNION {RefEdges(m.v.schema, <<"requestBody", m.k>>) :
                      m \in {route.requestBody.content[i] :
                               i \in 1..Len(route.requestBody.content)}}
        ELSE {})
  \cup UNION {IF Has(r.v, "content")
              THEN UNION {RefEdges(m.v.schema, <<"responses", r.k, m.k>>) :
                            m \in {r.v.content[i] : i \in 1..Len(r.v.content)}}
              ELSE {} : r \in {route.responses[i] : i \in 1..Len(route.responses)}}

\* the Ref edges a top-level schema or route owns
OwnedRefEdges(doc, owner) ==
  IF MapHas(doc.schemas, owner) THEN SchemaRefEdges(MapGet(doc.schemas, owner), <<>>)
  ELSE IF MapHas(doc.routes, owner) THEN RouteRefEdges(MapGet(doc.routes, owner))
  ELSE {}

DanglingRefEdges(doc, owner) ==
  {e \in OwnedRefEdges(doc, owner) : ~MapHas(doc.schemas, e.targetId)}

BrokenReferences(result) == SelectSeq(result.errors, LAMBDA e : e.code = "BROKEN_REFERENCE")

BrokenReferencesOf(result, owner) ==
  SelectSeq(BrokenReferences(result), LAMBDA e : e.location = [nodeId |-> owner])

\* C10: validate reports exactly one BROKEN_REFERENCE error for each Ref edge
\* whose targetId is not a key of the schema map (in properties, items and
\* variants at any inline depth, route parameters, request-body and response
\* media types), attributed to the owning top-level schema or route, and none
\* for the Ref edges that resolve.
C10_OneBrokenReferencePerDanglingEdge ==
  validation # NoValidation =>
    LET owners == MapKeys(document.schemas) \cup MapKeys(document.routes)
    IN  /\ \A owner \in owners :
             Len(BrokenReferencesOf(validation[1], owner))
               = Cardinality(DanglingRefEdges(document, owner))
        /\ \A i \in 1..Len(BrokenReferences(validation[1])) :
             /\ DOMAIN BrokenReferences(validation[1])[i].location = {"nodeId"}
             /\ BrokenReferences(validation[1])[i].location.nodeId \in owners

\* C10 witness: a validated document in which one schema owns a dangling edge
\* two inline schemas deep next to an edge that resolves, and the route owns a
\* dangling edge in a parameter and one in a response media type
C10_Witness ==
  /\ validation # NoValidation
  /\ \E e \in DanglingRefEdges(document, "s1") : Len(e.at) >= 4
  /\ OwnedRefEdges(document, "s1") # DanglingRefEdges(document, "s1")
  /\ \E e \in DanglingRefEdges(document, "r1") : e.at[1] = "parameters"
  /\ \E e \in DanglingRefEdges(document, "r1") : e.at[1] = "responses"
  /\ Len(BrokenReferencesOf(validation[1], "s1")) >= 2
  /\ Len(BrokenReferencesOf(validation[1], "r1")) >= 2

\* the schemas a node of the reference graph refers to by a Ref edge of its own
DirectRefTargets(doc, id) ==
  IF ~MapHas(doc.schemas, id) THEN {}
  ELSE LET schema == MapGet(doc.schemas, id)
           edges == (IF Has(schema, "properties")
                     THEN {schema.properties[i].v.schema : i \in 1..Len(schema.properties)}
                     ELSE {})
                    \cup (IF Has(schema, "items") THEN {schema.items} ELSE {})
                    \cup (IF Has(schema, "variants")
                          THEN {schema.variants[i] : i \in 1..Len(schema.variants)}
                          ELSE {})
       IN  {e.targetId : e \in {e \in edges : e.kind = "ref"}}

\* the nodes reached from a set of nodes in zero or more Ref edges
RECURSIVE ReachedFrom(_, _)
ReachedFrom(doc, nodes) ==
  LET more == nodes \cup UNION {DirectRefTargets(doc, n) : n \in nodes}
  IN  IF more = nodes THEN nodes ELSE ReachedFrom(doc, more)

OnRefCycle(doc, id) == id \in ReachedFrom(doc, DirectRefTargets(doc, id))

\* a walk over Ref edges from id comes back to a node it is still inside
WalkRevisits(doc, id) == \E n \in ReachedFrom(doc, {id}) : OnRefCycle(doc, n)

CircularReferencesOf(result, id) ==
  SelectSeq(result.warnings,
            LAMBDA w : w.code = "CIRCULAR_REFERENCE" /\ w.location = [nodeId |-> id])

\* C11: for top-level schemas linked by direct Ref edges, validate emits
\* exactly one CIRCULAR_REFERENCE warning for a schema when a depth-first walk
\* over Ref edges from it revisits a node on its active stack, and none
\* otherwise; a document with an acyclic Ref graph gets no such warning.
C11_CircularReferenceIffWalkRevisits ==
  validation # NoValidation =>
    \A id \in MapKeys(document.schemas) :
      Len(CircularReferencesOf(validation[1], id))
        = IF WalkRevisits(document, id) THEN 1 ELSE 0

\* C11 witness: validated documents in which s1 and s2 refer to each other
\* and s3 refers to nothing, so that s1 and s2 are warned and s3 is not
C11_Witness ==
  /\ validation # NoValidation
  /\ MapKeys(document.schemas) = {"s1", "s2", "s3"}
  /\ "s2" \in DirectRefTargets(document, "s1")
  /\ "s1" \in DirectRefTargets(document, "s2")
  /\ DirectRefTargets(document, "s3") = {}
  /\ Len(CircularReferencesOf(validation[1], "s1")) = 1
  /\ Len(CircularReferencesOf(validation[1], "s2")) = 1
  /\ Len(CircularReferencesOf(validation[1], "s3")) = 0

\* the targets of the Ref edges that sit inside the inline schemas of a schema
InlineRefTargets(schema) ==
  LET edges == (IF Has(schema, "properties")
                THEN {schema.properties[i].v.schema : i \in 1..Len(schema.properties)}
                ELSE {})
               \cup (IF Has(schema, "items") THEN {schema.items} ELSE {})
               \cup (IF Has(schema, "variants")
                     THEN {schema.variants[i] : i \in 1..Len(schema.variants)}
                     ELSE {})
  IN  {r.targetId : r \in UNION {SchemaRefEdges(e.schema, <<>>) :
                                   e \in {e \in edges : e.kind = "inline"}}}

\* C12: when a schema A holds, inside an inline schema, a Ref edge to B, and
\* B leads back to A by Ref edges (or B is A), validate reports a
\* CIRCULAR_REFERENCE warning for A.
C12_CycleThroughInlineIsWarned ==
  validation # NoValidation =>
    \A id \in MapKeys(document.schemas) :
      (\E b \in InlineRefTargets(MapGet(document.schemas, id)) :
         id \in ReachedFrom(document, {b}))
        => Len(CircularReferencesOf(validation[1], id)) >= 1

OrphanedSchemasOf(result, id) ==
  SelectSeq(result.warnings,
            LAMBDA w : w.code = "ORPHANED_SCHEMA" /\ w.location = [nodeId |-> id])

\* the Ref edges to id that the routes and the schemas other than id hold
PositionsReferring(doc, id) ==
  UNION {{<<owner, e>> : e \in {r \in OwnedRefEdges(doc, owner) : r.targetId = id}} :
           owner \in (MapKeys(doc.routes) \cup MapKeys(doc.schemas)) \ {id}}

isNamed(schema) == Has(schema, "name") /\ schema.name # ""

\* C13: validate reports ORPHANED_SCHEMA for a schema exactly when the
\* schema is named and no route and no other schema holds a Ref edge to it:
\* the schema's own Ref to itself is no use, and unnamed schemas are never
\* reported.
C13_OrphanIffNamedAndUnreferenced ==
  validation # NoValidation =>
    \A id \in MapKeys(document.schemas) :
      Len(OrphanedSchemasOf(validation[1], id))
        = IF /\ isNamed(MapGet(document.schemas, id))
             /\ PositionsReferring(document, id) = {}
          THEN 1 ELSE 0

\* C14: getSchemaUsageCount(id) is the number of positions, in the routes
\* and in the schemas other than id, at any depth of inline nesting, whose
\* edge is a Ref to id.
C14_UsageCountsEveryPosition ==
  \A id \in MapKeys(document.schemas) \cup {"gone"} :
    getSchemaUsageCount(State, id) = Cardinality(PositionsReferring(document, id))

UndefinedPathParamsOf(result, id) ==
  SelectSeq(result.errors,
            LAMBDA e : e.code = "UNDEFINED_PATH_PARAM" /\ e.location = [nodeId |-> id])

\* the route is what createRoute returns for its path and method
isCreatedRoute(route) ==
  \E responseId \in {"resp1"} :
    route = createRoute(<<route.id, responseId>>, route.path, route.method)

\* C15: a route that createRoute returns has exactly one response, "200"
\* "Successful response", and one required string-typed path parameter per
\* placeholder of its path, in declaration order (id and orderId for
\* /users/{id}/orders/{orderId}), so validate reports no
\* UNDEFINED_PATH_PARAM error for it.
C15_CreateRouteDeclaresPathParams ==
  \A i \in 1..Len(document.routes) :
    LET route == document.routes[i].v
        found == pathParams(route.path)
    IN  isCreatedRoute(route) =>
          /\ MapKeys(route.responses) = {"200"}
          /\ MapGet(route.responses, "200").description = "Successful response"
          /\ Len(route.parameters) = Len(found)
          /\ \A j \in 1..Len(route.parameters) :
               /\ route.parameters[j].name = found[j].param
               /\ route.parameters[j].in = "path"
               /\ route.parameters[j].required
               /\ route.parameters[j].schema.kind = "inline"
               /\ route.parameters[j].schema.schema.type = "string"
          /\ validation # NoValidation =>
               Len(UndefinedPathParamsOf(validation[1], route.id)) = 0

(***************************************************************************)
(* Properties of export and import.                                        *)
(***************************************************************************)
\* C16: serializeToYaml returns text and does not throw, for every document
\* the store can hold: with dangling Ref edges, with Ref edges to unnamed
\* schemas, with Ref cycles among named and unnamed schemas.
C16_ExportIsTotal ==
  \A i \in 1..Len(exported) : ~exported[i].threw

RECURSIVE shapeOfSchema(_, _)
RECURSIVE shapeOfSchemaOrRef(_, _)
\* a schema without its identifiers, each Ref by the name of its target
shapeOfSchema(schema, doc) ==
  LET s0 == Without(schema, "id")
      s1 == IF Has(s0, "properties")
            THEN [s0 EXCEPT !.properties =
                    [i \in 1..Len(@) |->
                       Entry(@[i].k, [@[i].v EXCEPT !.schema = shapeOfSchemaOrRef(@, doc)])]]
            ELSE s0
      s2 == IF Has(s1, "items") THEN [s1 EXCEPT !.items = shapeOfSchemaOrRef(@, doc)] ELSE s1
  IN  IF Has(s2, "variants")
      THEN [s2 EXCEPT !.variants = [i \in 1..Len(@) |-> shapeOfSchemaOrRef(@[i], doc)]]
      ELSE s2

shapeOfSchemaOrRef(schemaOrRef, doc) ==
  IF schemaOrRef.kind = "ref"
  THEN [kind |-> "ref",
        target |-> IF MapHas(doc.schemas, schemaOrRef.targetId)
                   THEN <<nameOrAnonymous(MapGet(doc.schemas, schemaOrRef.targetId))>>
                   ELSE <<>>]
  ELSE Inline(shapeOfSchema(schemaOrRef.schema, doc))

shapeOfContent(content, doc) ==
  [i \in 1..Len(content) |->
     Entry(content[i].k, [content[i].v EXCEPT !.schema = shapeOfSchemaOrRef(@, doc)])]

shapeOfRoute(route, doc) ==
  LET r0 == Without(route, "id")
      r1 == [r0 EXCEPT
               !.parameters =
                 [i \in 1..Len(@) |->
                    [Without(@[i], "id") EXCEPT !.schema = shapeOfSchemaOrRef(@, doc)]],
               !.responses =
                 [i \in 1..Len(@) |->
                    Entry(@[i].k,
                          IF Has(@[i].v, "content")
                          THEN [Without(@[i].v, "id") EXCEPT
                                  !.content = shapeOfContent(@, doc)]
                          ELSE Without(@[i].v, "id"))]]
  IN  IF Has(r1, "requestBody")
      THEN [r1 EXCEPT !.requestBody =
              [Without(@, "id") EXCEPT !.content = shapeOfContent(@, doc)]]
      ELSE r1

\* a document up to the renaming of identifiers; the schemas, the security
\* schemes and the routes in any order
shapeOfDocument(doc) ==
  [info |-> doc.info, servers |-> doc.servers, tags |-> doc.tags,
   schemas |-> {shapeOfSchema(doc.schemas[i].v, doc) : i \in 1..Len(doc.schemas)},
   securitySchemes |-> {Without(doc.securitySchemes[i].v, "id") :
                          i \in 1..Len(doc.securitySchemes)},
   routes |-> {shapeOfRoute(doc.routes[i].v, doc) : i \in 1..Len(doc.routes)}]

\* parseYaml returned a document and no error
ParsedClean(result) ==
  ~result.threw /\ Has(result.value, "document") /\ result.value.errors = <<>>

RoundTrips(d) ==
  LET text == serializeToYaml(d)
  IN  /\ ~text.threw
      /\ LET again == parseYaml(text.value)
         IN  /\ ~again.threw
             /\ Has(again.value, "document")
             /\ shapeOfDocument(again.value.document) = shapeOfDocument(d)

\* C17: for a document d that parseYaml returned with an empty error list,
\* parseYaml(serializeToYaml(d)) returns a document equal to d up to the
\* renaming of identifiers.
C17_RoundTripPreservesDocument ==
  \A i \in 1..Len(parseResult) :
    ParsedClean(parseResult[i]) => RoundTrips(parseResult[i].value.document)

\* the mappings and sequences that are open at token i of a text
depthAt(text, i) ==
  Cardinality({j \in 1..(i - 1) : text[j].tok \in {"{", "["}})
    - Cardinality({j \in 1..(i - 1) : text[j].tok \in {"}", "]"}})

\* the keys of the outermost mapping of a text, in the order of the text
topLevelKeys(text) ==
  LET at == SelectSeq([i \in 1..Len(text) |-> i],
                      LAMBDA i : text[i].tok = "key" /\ depthAt(text, i) = 1)
  IN  [n \in 1..Len(at) |-> text[at[n]].k]

KeyOrder == <<"openapi", "info", "servers", "paths", "components", "tags">>

InKeyOrder(keys) ==
  \A i, j \in 1..Len(keys) :
    i < j => /\ includes(KeyOrder, keys[i]) /\ includes(KeyOrder, keys[j])
             /\ indexOf(KeyOrder, keys[i]) < indexOf(KeyOrder, keys[j])

\* C18: in the exported text the top-level keys that are present appear in
\* the order openapi, info, servers, paths, components, tags.
C18_TopLevelKeyOrder ==
  \A i \in 1..Len(exported) :
    ~exported[i].threw => InKeyOrder(topLevelKeys(exported[i].value))

\* C19: parseYaml never throws: for every text it returns a result with a
\* document or none and an error list.
C19_ParseNeverThrows ==
  \A i \in 1..Len(parseResult) :
    /\ ~parseResult[i].threw
    /\ Has(parseResult[i].value, "errors")

\* the text is no YAML, or is the YAML of a value that is no mapping
NotAMapping(text) == ~YAMLparse(text).ok \/ YAMLparse(text).value.t # "obj"

\* C20: for a text that is no YAML or whose value is no mapping, parseYaml
\* returns no document and exactly one entry, of severity error.
C20_NotAMappingIsOneFatalError ==
  [][(parseResult = <<>> /\ parseResult' # <<>> /\ NotAMapping(yamlContent)) =>
       /\ ~parseResult'[1].threw
       /\ ~Has(parseResult'[1].value, "document")
       /\ Len(parseResult'[1].value.errors) = 1
       /\ parseResult'[1].value.errors[1].severity = "error"]_vars

\* a step in which the import dialog parses the text
Imports == parseResult = <<>> /\ parseResult' # <<>>

\* the text is the YAML of a mapping
IsMapping(text) == YAMLparse(text).ok /\ YAMLparse(text).value.t = "obj"

\* the openapi field of the mapping is absent or does not start with "3."
VersionUnsupported(root) ==
  ~(Get(root, "openapi").t = "str" /\ startsWith3(Get(root, "openapi").s))

\* the result has a diagnostic of this code and severity
Reports(result, code, severity) ==
  \E i \in 1..Len(result.errors) :
    result.errors[i].code = code /\ result.errors[i].severity = severity

\* C21: parsing a mapping whose openapi field is absent or does not start
\* with "3." (the text "openapi: 2.0\ninfo:\n  title: X\npaths: {}" for one)
\* yields a document and an INVALID_VERSION entry of severity error and, when
\* info has no version, a MISSING_VERSION warning and info.version "1.0.0".
C21_UnsupportedVersionStillParses ==
  [][(/\ Imports /\ IsMapping(yamlContent)
      /\ VersionUnsupported(YAMLparse(yamlContent).value)) =>
       /\ ~parseResult'[1].threw
       /\ Has(parseResult'[1].value, "document")
       /\ Reports(parseResult'[1].value, "INVALID_VERSION", "error")
       /\ (/\ Get(YAMLparse(yamlContent).value, "info").t = "obj"
           /\ ~truthy(Get(Get(YAMLparse(yamlContent).value, "info"), "version"))) =>
            /\ Reports(parseResult'[1].value, "MISSING_VERSION", "warning")
            /\ parseResult'[1].value.document.info.version = "1.0.0"]_vars

\* the $ref of the schema position has the form #/components/schemas/<Name>
\* and names one of the schemas
Resolves(data, names) ==
  /\ Get(data, "$ref").t = "str"
  /\ refMatch(Get(data, "$ref").s) # <<>>
  /\ refMatch(Get(data, "$ref").s)[1] \in names

\* the $ref entries at and below a schema position of the decoded text: those
\* that resolve when good, those that do not otherwise
RECURSIVE refsAt(_, _, _)
refsAt(data, names, good) ==
  IF data.t # "obj" THEN 0
  ELSE IF MapHas(data.v, "$ref") /\ Resolves(data, names) THEN (IF good THEN 1 ELSE 0)
  ELSE (IF MapHas(data.v, "$ref") /\ ~good THEN 1 ELSE 0)
       + Sum([i \in 1..Len(entries(Get(data, "properties"))) |->
                refsAt(entries(Get(data, "properties"))[i].v, names, good)])
       + refsAt(Get(data, "items"), names, good)
       + Sum([k \in 1..3 |->
                IF Get(data, <<"oneOf", "anyOf", "allOf">>[k]).t = "arr"
                THEN Sum([i \in 1..Len(Get(data, <<"oneOf", "anyOf", "allOf">>[k]).v) |->
                            refsAt(Get(data, <<"oneOf", "anyOf", "allOf">>[k]).v[i],
                                   names, good)])
                ELSE 0])

\* those of the media types of a content mapping
refsOfContent(content, names, good) ==
  Sum([i \in 1..Len(entries(content)) |->
         refsAt(Get(entries(content)[i].v, "schema"), names, good)])

\* those of an operation: its parameters, request body and responses
refsOfOperation(data, names, good) ==
  (IF Get(data, "parameters").t = "arr"
   THEN Sum([i \in 1..Len(Get(data, "parameters").v) |->
               refsAt(Get(Get(data, "parameters").v[i], "schema"), names, good)])
   ELSE 0)
  + refsOfContent(Get(Get(data, "requestBody"), "content"), names, good)
  + Sum([i \in 1..Len(entries(Get(data, "responses"))) |->
           refsOfContent(Get(entries(Get(data, "responses"))[i].v, "content"), names, good)])

\* those of a decoded OpenAPI text
refsOfRoot(root, good) ==
  Sum([i \in 1..Len(entries(Get(Get(root, "components"), "schemas"))) |->
         refsAt(entries(Get(Get(root, "components"), "schemas"))[i].v,
                MapKeys(entries(Get(Get(root, "components"), "schemas"))), good)])
  + Sum([i \in 1..Len(operationsOf(Get(root, "paths"))) |->
           refsOfOperation(operationsOf(Get(root, "paths"))[i].data,
                           MapKeys(entries(Get(Get(root, "components"), "schemas"))), good)])

\* the warnings of a parse result that are not about the info object
RefWarnings(result) ==
  SelectSeq(result.errors,
            LAMBDA e : e.severity = "warning"
                       /\ e.code \notin {"MISSING_TITLE", "MISSING_VERSION"})

\* the number of Ref edges of a document
CountRefEdges(doc) ==
  Sum([i \in 1..Len(doc.schemas) |-> Cardinality(SchemaRefEdges(doc.schemas[i].v, <<>>))])
  + Sum([i \in 1..Len(doc.routes) |-> Cardinality(RouteRefEdges(doc.routes[i].v))])

\* parseYaml returned a document
ReturnedDocument(result) == ~result.threw /\ Has(result.value, "document")

\* C22: in a parse that returns a document, every $ref at a schema position
\* that is not of the form #/components/schemas/<Name> or names a schema that
\* components.schemas does not have adds one warning, and the document has a
\* Ref edge for the other $ref entries only.
C22_BadRefIsWarnedAndDropped ==
  [][(Imports /\ IsMapping(yamlContent) /\ ReturnedDocument(parseResult'[1])) =>
       /\ Len(RefWarnings(parseResult'[1].value))
            = refsOfRoot(YAMLparse(yamlContent).value, FALSE)
       /\ CountRefEdges(parseResult'[1].value.document)
            = refsOfRoot(YAMLparse(yamlContent).value, TRUE)]_vars

\* the schema position of the decoded text that the steps of an edge lead to
RECURSIVE textAt(_, _)
textAt(data, at) ==
  IF at = <<>> THEN data
  ELSE IF at[1] = "properties"
  THEN textAt(Get(Get(data, "properties"), at[2]), SubSeq(at, 3, Len(at)))
  ELSE IF at[1] = "items" THEN textAt(Get(data, "items"), Tail(at))
  ELSE textAt(schemaVariants(data).v[at[2]], SubSeq(at, 3, Len(at)))

\* the same from an operation of the decoded text
textOfRouteAt(data, at) ==
  IF at[1] = "parameters"
  THEN textAt(Get(Get(data, "parameters").v[at[2]], "schema"), SubSeq(at, 3, Len(at)))
  ELSE IF at[1] = "requestBody"
  THEN textAt(Get(Get(Get(Get(data, "requestBody"), "content"), at[2]), "schema"),
              SubSeq(at, 3, Len(at)))
  ELSE textAt(Get(Get(Get(Get(Get(data, "responses"), at[2]), "content"), at[3]), "schema"),
              SubSeq(at, 4, Len(at)))

\* the edge targets a key of the schema map, the key of the one schema that
\* has the name the $ref of the text gives
TargetsNamed(doc, edge, data) ==
  /\ MapHas(doc.schemas, edge.targetId)
  /\ Get(data, "$ref").t = "str"
  /\ refMatch(Get(data, "$ref").s) # <<>>
  /\ {k \in MapKeys(doc.schemas) :
        MapGet(doc.schemas, k).name = refMatch(Get(data, "$ref").s)[1]} = {edge.targetId}

\* every Ref edge of the document parsed from the decoded text does
RefsResolveByName(doc, root) ==
  /\ \A i \in 1..Len(doc.schemas) :
       \A edge \in SchemaRefEdges(doc.schemas[i].v, <<>>) :
         TargetsNamed(doc, edge,
                      textAt(Get(Get(Get(root, "components"), "schemas"),
                                 doc.schemas[i].v.name),
                             edge.at))
  /\ \A i \in 1..Len(doc.routes) :
       \A edge \in RouteRefEdges(doc.routes[i].v) :
         TargetsNamed(doc, edge,
                      textOfRouteAt(Get(Get(Get(root, "paths"),
                                            pathText(doc.routes[i].v.path)),
                                        doc.routes[i].v.method),
                                    edge.at))

\* C23: every Ref edge of a document that parseYaml returns targets a key of
\* the document's schema map, the identifier of the schema the $ref names,
\* whether that schema is declared before or after, is the schema itself or
\* lies on a cycle; every $ref to one name gives the same identifier.
C23_RefsResolveInAnyOrder ==
  [][(Imports /\ IsMapping(yamlContent) /\ ReturnedDocument(parseResult'[1])) =>
       RefsResolveByName(parseResult'[1].value.document,
                         YAMLparse(yamlContent).value)]_vars

\* the edges of a schema of the document, as the set of their targets' names
TargetNames(doc, name) ==
  UNION {{MapGet(doc.schemas, edge.targetId).name :
            edge \in {e \in SchemaRefEdges(doc.schemas[i].v, <<>>) :
                        MapHas(doc.schemas, e.targetId)}} :
           i \in {j \in 1..Len(doc.schemas) : doc.schemas[j].v.name = name}}

\* C23 witness: a parsed document in which A, declared first, refers to
\* itself and to B, B refers back to A, and a route parameter refers to A
C23_Witness ==
  /\ parseResult # <<>>
  /\ ReturnedDocument(parseResult[1])
  /\ Len(parseResult[1].value.document.schemas) = 2
  /\ parseResult[1].value.document.schemas[1].v.name = "A"
  /\ TargetNames(parseResult[1].value.document, "A") = {"A", "B"}
  /\ TargetNames(parseResult[1].value.document, "B") = {"A"}
  /\ \E i \in 1..Len(parseResult[1].value.document.routes) :
       RouteRefEdges(parseResult[1].value.document.routes[i].v) # {}

\* the info object of the decoded text has no title, or no version
MissingInfoField(root, f) == ~truthy(Get(Get(root, "info"), f))

\* the diagnostics about the info object and its fields
InfoDiagnostics(result) ==
  SelectSeq(result.errors,
            LAMBDA e : Has(e.location, "path") /\ e.location.path[1] = "info")

\* C24: for a mapping whose info.title or info.version is missing, the info
\* object itself being absent included, parseYaml returns a document whose
\* missing title is "Untitled API" and missing version is "1.0.0", and the
\* diagnostics about the missing fields have severity warning.
C24_MissingInfoFieldsAreWarnings ==
  [][(/\ Imports /\ IsMapping(yamlContent)
      /\ \/ MissingInfoField(YAMLparse(yamlContent).value, "title")
         \/ MissingInfoField(YAMLparse(yamlContent).value, "version")) =>
       /\ ReturnedDocument(parseResult'[1])
       /\ MissingInfoField(YAMLparse(yamlContent).value, "title") =>
            parseResult'[1].value.document.info.title = "Untitled API"
       /\ MissingInfoField(YAMLparse(yamlContent).value, "version") =>
            parseResult'[1].value.document.info.version = "1.0.0"
       /\ Len(InfoDiagnostics(parseResult'[1].value)) >= 1
       /\ \A i \in 1..Len(InfoDiagnostics(parseResult'[1].value)) :
            InfoDiagnostics(parseResult'[1].value)[i].severity = "warning"]_vars

(***************************************************************************)
(* lib/storage/serializer.ts: the storage form of a document.  A stored    *)
(* array of [key, value] entries is a sequence of Pair records, which      *)
(* tells it from a Map, a sequence of Entry records.                       *)
(***************************************************************************)
Pair(key, value) == [key |-> key, value |-> value]

\* Array.from(map.entries())
ArrayFromEntries(map) == [i \in 1..Len(map) |-> Pair(map[i].k, map[i].v)]

storage_serializeRequestBody(body) == [content |-> ArrayFromEntries(body.content)] @@ body

storage_serializeResponse(response) ==
  [f \in DOMAIN response |->
     IF f \in {"content", "headers"} THEN ArrayFromEntries(response[f]) ELSE response[f]]

SerializedRouteFields ==
  {"id", "path", "method", "summary", "description", "operationId", "tags", "parameters",
   "requestBody", "responses", "security", "deprecated"}

storage_serializeRoute(route) ==
  [f \in DOMAIN route \cap SerializedRouteFields |->
     IF f = "requestBody" THEN storage_serializeRequestBody(route.requestBody)
     ELSE IF f = "responses"
     THEN [i \in 1..Len(route.responses) |->
             Pair(route.responses[i].k, storage_serializeResponse(route.responses[i].v))]
     ELSE route[f]]

SerializedSchemaFields ==
  {"id", "name", "type", "description", "properties", "items", "variants", "enumValues",
   "required", "format", "example", "default", "minimum", "maximum", "minLength",
   "maxLength", "pattern", "discriminator"}

storage_serializeSchema(schema) ==
  [f \in DOMAIN schema \cap SerializedSchemaFields |->
     IF f = "properties" THEN ArrayFromEntries(schema.properties) ELSE schema[f]]

storage_serializeDocument(doc) ==
  [id |-> doc.id,
   info |-> doc.info,
   servers |-> doc.servers,
   routes |-> [i \in 1..Len(doc.routes) |->
                 Pair(doc.routes[i].k, storage_serializeRoute(doc.routes[i].v))],
   schemas |-> [i \in 1..Len(doc.schemas) |->
                  Pair(doc.schemas[i].k, storage_serializeSchema(doc.schemas[i].v))],
   securitySchemes |-> ArrayFromEntries(doc.securitySchemes),
   tags |-> doc.tags]

serializeProject(project) ==
  [metadata |-> project.metadata, document |-> storage_serializeDocument(project.document)]

(***************************************************************************)
(* hooks/use-mobile.tsx: usePersistence, mounted over the store.           *)
(* documentRef, initialLoadDone and lastSavedVersion are the hook's refs;  *)
(* renderedVersion is the documentVersion of the last render, the          *)
(* dependency the auto-save effect compares; saveTimeout is the pending    *)
(* debounce timer, holding the documentVersion its saveDocument closed     *)
(* over; saving is the queue of saves under way; stored is the project in  *)
(* the repository.  The timestamps of the metadata are left out.           *)
(***************************************************************************)
DEFAULT_PROJECT_ID == "default"

DEFAULT_PROJECT_NAME == "Untitled API"

\* store edits per session of the persistence specification
MaxEdits == 2

\* the project saveDocument builds around the document
projectOf(doc) ==
  [metadata |-> [id |-> DEFAULT_PROJECT_ID,
                 name |-> IF doc.info.title # "" THEN doc.info.title
                          ELSE DEFAULT_PROJECT_NAME],
   document |-> doc]

\* documents of the import dialog: no inline object schema, and one nested
\* under a property, array items, a composition variant, a parameter and a
\* media type
NestedInline == InlineObject(Ref("s1"))

PersistDocuments ==
  {ValidatedDocument(Ref("s1"), TRUE, Ref("s1"), <<>>, Ref("s2")),
   ValidatedDocument(NestedInline, TRUE, Ref("s1"), <<>>, Ref("s2")),
   ValidatedDocument(InlineArray(NestedInline), TRUE, Ref("s1"), <<>>, Ref("s2")),
   ValidatedDocument(InlineAllOf(NestedInline), TRUE, Ref("s1"), <<>>, Ref("s2")),
   ValidatedDocument(Ref("s1"), TRUE, NestedInline, <<>>, Ref("s2")),
   ValidatedDocument(Ref("s1"), TRUE, Ref("s1"),
                     <<[id |-> "b1", required |-> TRUE, content |-> jsonContent(NestedInline)]>>,
                     NestedInline)}

InitPersist ==
  /\ document = createEmptyDocument("doc0")
  /\ documentVersion = 0
  /\ history = <<>>
  /\ historyIndex = -1
  /\ commandLog = <<>>
  /\ trace = <<[op |-> "create", args |-> <<>>, doc |-> createEmptyDocument("doc0")]>>
  /\ validation = NoValidation
  /\ NoFile
  /\ documentRef = <<document>>
  /\ renderedVersion = 0
  /\ initialLoadDone = FALSE
  /\ lastSavedVersion = -1
  /\ saveTimeout = <<>>
  /\ saving = <<>>
  /\ stored = <<>>

MayEdit == documentVersion < MaxEdits

EditImport ==
  MayEdit /\ \E doc \in PersistDocuments : Step("setDocument", [doc |-> doc], setDocument(State, doc))

EditTag == MayEdit /\ \E tag \in Tags : Step("addTag", [tag |-> tag], addTag(State, tag))

EditUndo == MayEdit /\ Step("undo", <<>>, undo(State))

\* the component renders with the store's state: the ref takes the document,
\* and the auto-save effect runs when documentVersion is not the one of the
\* last render
Render ==
  /\ documentRef # <<document>> \/ renderedVersion # documentVersion
  /\ documentRef' = <<document>>
  /\ renderedVersion' = documentVersion
  /\ saveTimeout' = IF /\ renderedVersion # documentVersion
                       /\ initialLoadDone
                       /\ documentVersion > lastSavedVersion
                    THEN <<documentVersion>>
                    ELSE saveTimeout
  /\ UNCHANGED <<storeVars, trace, validation, fileVars, initialLoadDone,
                 lastSavedVersion, saving, stored>>

\* the 100 ms timer of the initial-load effect; the render that setIsLoading
\* causes leaves the dependencies of the auto-save effect as they were
LoadTimerFires ==
  /\ ~initialLoadDone
  /\ initialLoadDone' = TRUE
  /\ UNCHANGED <<storeVars, trace, validation, fileVars, documentRef, renderedVersion,
                 lastSavedVersion, saveTimeout, saving, stored>>

\* the debounce timer: saveDocument reads the ref and starts the write
SaveTimerFires ==
  /\ saveTimeout # <<>>
  /\ saving' = Append(saving, [project |-> projectOf(documentRef[1]),
                               documentVersion |-> saveTimeout[1]])
  /\ saveTimeout' = <<>>
  /\ UNCHANGED <<storeVars, trace, validation, fileVars, documentRef, renderedVersion,
                 initialLoadDone, lastSavedVersion, stored>>

\* repository.saveProject puts the serialized project; saveDocument then
\* records the documentVersion it closed over
SaveCompletes ==
  /\ saving # <<>>
  /\ stored' = <<serializeProject(Head(saving).project)>>
  /\ lastSavedVersion' = Head(saving).documentVersion
  /\ saving' = Tail(saving)
  /\ UNCHANGED <<storeVars, trace, validation, fileVars, documentRef, renderedVersion,
                 initialLoadDone, saveTimeout>>

NextPersist ==
  \/ EditImport \/ EditTag \/ EditUndo
  \/ Render \/ LoadTimerFires \/ SaveTimerFires \/ SaveCompletes

\* timers fire, renders happen and repository writes succeed; the user is
\* not obliged to edit
SpecPersist ==
  /\ InitPersist
  /\ [][NextPersist]_vars
  /\ WF_vars(Render) /\ WF_vars(LoadTimerFires)
  /\ WF_vars(SaveTimerFires) /\ WF_vars(SaveCompletes)

\* a Map, as far as it can be told from an array of entries: one that has
\* an entry
IsMap(x) == x # <<>> /\ Has(x[1], "k")

\* the value of an entry of either form
valueOf(e) == IF Has(e, "k") THEN e.v ELSE e.value

RECURSIVE MapInSchema(_)
\* a Map in a schema, stored or not, at any depth
MapInSchema(schema) ==
  \/ /\ Has(schema, "properties")
     /\ \/ IsMap(schema.properties)
        \/ \E i \in 1..Len(schema.properties) :
             /\ valueOf(schema.properties[i]).schema.kind = "inline"
             /\ MapInSchema(valueOf(schema.properties[i]).schema.schema)
  \/ /\ Has(schema, "items")
     /\ schema.items.kind = "inline"
     /\ MapInSchema(schema.items.schema)
  \/ /\ Has(schema, "variants")
     /\ \E i \in 1..Len(schema.variants) :
          /\ schema.variants[i].kind = "inline"
          /\ MapInSchema(schema.variants[i].schema)

MapInEdge(holder) ==
  Has(holder, "schema") /\ holder.schema.kind = "inline" /\ MapInSchema(holder.schema.schema)

\* a Map in a content or headers container
MapInContent(content) ==
  IsMap(content) \/ \E i \in 1..Len(content) : MapInEdge(valueOf(content[i]))

MapInRoute(route) ==
  \/ \E i \in 1..Len(route.parameters) : MapInEdge(route.parameters[i])
  \/ Has(route, "requestBody") /\ MapInContent(route.requestBody.content)
  \/ IsMap(route.responses)
  \/ \E i \in 1..Len(route.responses) :
       \/ /\ Has(valueOf(route.responses[i]), "content")
          /\ MapInContent(valueOf(route.responses[i]).content)
       \/ /\ Has(valueOf(route.responses[i]), "headers")
          /\ MapInContent(valueOf(route.responses[i]).headers)

MapInDocument(doc) ==
  \/ IsMap(doc.routes) \/ IsMap(doc.schemas) \/ IsMap(doc.securitySchemes)
  \/ \E i \in 1..Len(doc.routes) : MapInRoute(valueOf(doc.routes[i]))
  \/ \E i \in 1..Len(doc.schemas) : MapInSchema(valueOf(doc.schemas[i]))

\* C25: the storage form that serializeDocument produces, as the repository
\* holds it after a save, contains no Map at any depth.
C25_StoredDocumentHasNoMap == stored # <<>> => ~MapInDocument(stored[1].document)

\* the hook has nothing left to do: the last render saw the store's state,
\* the load timer has fired, no debounce timer is pending, no save under way
Settled ==
  /\ documentRef = <<document>>
  /\ renderedVersion = documentVersion
  /\ initialLoadDone
  /\ saveTimeout = <<>>
  /\ saving = <<>>

\* C26: once the hook has settled after a change of documentVersion, the
\* repository holds the store's latest document.
C26_ChangeIsSaved ==
  (Settled /\ documentVersion > 0) => stored = <<serializeProject(projectOf(document))>>

\* C27: in every reachable state canRedo() is true exactly when redo would
\* replace the document and advance historyIndex, and canUndo() is true
\* exactly when undo would replace the document.
C27_CanAgreesWithDo ==
  /\ canRedo(State) <=> /\ redo(State) # State
                        /\ redo(State).historyIndex = historyIndex + 1
  /\ canUndo(State) <=> undo(State) # State

\* how many times a diagnostic occurs in a list
Occurrences(diagnostics, d) ==
  Cardinality({i \in 1..Len(diagnostics) : diagnostics[i] = d})

\* the BROKEN_REFERENCE errors of validate after deleteSchema(id) that
\* validate did not report before it
NewBrokenReferences(before, id) ==
  LET after == validateDocument(deleteSchema(State, id).document)
  IN  {d \in {BrokenReferences(after)[i] : i \in 1..Len(BrokenReferences(after))} :
         Occurrences(BrokenReferences(after), d) > Occurrences(BrokenReferences(before), d)}

\* C28: when getSchemaUsageCount(id) is 0, deleteSchema(id) introduces no
\* broken reference: validate on the resulting document reports no
\* BROKEN_REFERENCE error that it did not report before the deletion.
C28_UnusedSchemaDeletesCleanly ==
  validation # NoValidation =>
    \A id \in MapKeys(document.schemas) :
      getSchemaUsageCount(State, id) = 0 => NewBrokenReferences(validation[1], id) = {}

\* C30: every store operation that replaces the current document with a
\* different one also changes documentVersion.
C30_NewDocumentNewVersion ==
  [][document' # document => documentVersion' # documentVersion]_vars

(***************************************************************************)
(* store.ts with object identity.  The containers that the handlers write  *)
(* in place (the document object, the schemas and routes Maps, a schema    *)
(* object with its properties Map and required array, a route object with  *)
(* its responses Map) carry a ref, the identity of the JavaScript object:  *)
(* two containers with the same ref are the same object.  A write to a     *)
(* container changes every occurrence of its ref in state.document, in     *)
(* the history and in the document under construction.  The objects no     *)
(* handler writes to (fields, responses, parameters, info) stay values.    *)
(***************************************************************************)
\* a new object: made by operation op, for the copy named, as part of key
NewRef(op, copy, part, key) == [op |-> op, copy |-> copy, part |-> part, key |-> key]

MapObject(ref, mapEntries) == [ref |-> ref, entries |-> mapEntries]

ArrayObject(ref, items) == [ref |-> ref, items |-> items]

\* a document of the value model, built of objects that operation op made
heldSchema(key, v, op, copy) ==
  [f \in DOMAIN v \cup {"ref"} |->
     IF f = "ref" THEN NewRef(op, copy, "schema", key)
     ELSE IF f = "properties" THEN MapObject(NewRef(op, copy, f, key), v[f])
     ELSE IF f = "required" THEN ArrayObject(NewRef(op, copy, f, key), v[f])
     ELSE v[f]]

heldRoute(key, v, op, copy) ==
  [f \in DOMAIN v \cup {"ref"} |->
     IF f = "ref" THEN NewRef(op, copy, "route", key)
     ELSE IF f = "responses" THEN MapObject(NewRef(op, copy, f, key), v[f])
     ELSE v[f]]

Held(doc, op, copy) ==
  [ref |-> NewRef(op, copy, "doc", ""),
   schemas |-> MapObject(NewRef(op, copy, "schemas", ""),
                 [i \in 1..Len(doc.schemas) |->
                    Entry(doc.schemas[i].k,
                          heldSchema(doc.schemas[i].k, doc.schemas[i].v, op, copy))]),
   routes |-> MapObject(NewRef(op, copy, "routes", ""),
                [i \in 1..Len(doc.routes) |->
                   Entry(doc.routes[i].k,
                         heldRoute(doc.routes[i].k, doc.routes[i].v, op, copy))])] @@ doc

\* the content of a document, its object identities forgotten
StripSchema(v) ==
  [f \in DOMAIN v \ {"ref"} |->
     IF f = "properties" THEN v[f].entries
     ELSE IF f = "required" THEN v[f].items
     ELSE v[f]]

StripRoute(v) ==
  [f \in DOMAIN v \ {"ref"} |-> IF f = "responses" THEN v[f].entries ELSE v[f]]

Strip(doc) ==
  [f \in DOMAIN doc \ {"ref"} |->
     IF f = "schemas"
     THEN [i \in 1..Len(doc.schemas.entries) |->
             Entry(doc.schemas.entries[i].k, StripSchema(doc.schemas.entries[i].v))]
     ELSE IF f = "routes"
     THEN [i \in 1..Len(doc.routes.entries) |->
             Entry(doc.routes.entries[i].k, StripRoute(doc.routes.entries[i].v))]
     ELSE doc[f]]

\* { ...v, properties: new Map(v.properties) } without the copies: the new
\* schema object keeps the properties Map and the required array of v
heap_cloneSchemaShared(key, v, op, copy) ==
  [f \in DOMAIN v |-> IF f = "ref" THEN NewRef(op, copy, "schema", key) ELSE v[f]]

\* cloneDocument: a new schema object with a new properties Map and a new
\* required array that hold the entries of the old ones
heap_cloneSchema(key, v, op, copy) ==
  [f \in DOMAIN v |->
     IF f = "ref" THEN NewRef(op, copy, "schema", key)
     ELSE IF f \in {"properties", "required"}
     THEN [v[f] EXCEPT !.ref = NewRef(op, copy, f, key)]
     ELSE v[f]]

heap_cloneRoute(key, v, op, copy) ==
  [f \in DOMAIN v |->
     IF f = "ref" THEN NewRef(op, copy, "route", key)
     ELSE IF f = "responses" THEN [v[f] EXCEPT !.ref = NewRef(op, copy, f, key)]
     ELSE v[f]]

heap_cloneDocument(doc, op, copy) ==
  [ref |-> NewRef(op, copy, "doc", ""),
   schemas |-> MapObject(NewRef(op, copy, "schemas", ""),
                 [i \in 1..Len(doc.schemas.entries) |->
                    Entry(doc.schemas.entries[i].k,
                          heap_cloneSchema(doc.schemas.entries[i].k,
                                           doc.schemas.entries[i].v, op, copy))]),
   routes |-> MapObject(NewRef(op, copy, "routes", ""),
                [i \in 1..Len(doc.routes.entries) |->
                   Entry(doc.routes.entries[i].k,
                         heap_cloneRoute(doc.routes.entries[i].k,
                                         doc.routes.entries[i].v, op, copy))])] @@ doc

\* the writes: object[key] = value, map.set(key, value), map.delete(key),
\* array.push(value), array[index] = value, array.splice(index, 1)
FieldWrite(ref, key, value) == [ref |-> ref, how |-> "field", key |-> key, value |-> value]

MapSetWrite(ref, key, value) == [ref |-> ref, how |-> "set", key |-> key, value |-> value]

MapDeleteWrite(ref, key) == [ref |-> ref, how |-> "delete", key |-> key]

PushWrite(ref, value) == [ref |-> ref, how |-> "push", value |-> value]

AssignWrite(ref, index, value) == [ref |-> ref, how |-> "assign", index |-> index, value |-> value]

SpliceWrite(ref, index) == [ref |-> ref, how |-> "splice", index |-> index]

written(container, w) ==
  IF container.ref # w.ref THEN container
  ELSE IF w.how = "field" THEN [f \in {w.key} |-> w.value] @@ container
  ELSE IF w.how = "set" THEN [container EXCEPT !.entries = MapSet(@, w.key, w.value)]
  ELSE IF w.how = "delete" THEN [container EXCEPT !.entries = MapDelete(@, w.key)]
  ELSE IF w.how = "push" THEN [container EXCEPT !.items = Append(@, w.value)]
  ELSE IF w.how = "assign" THEN [container EXCEPT !.items = assignAt(@, w.index, w.value)]
  ELSE [container EXCEPT !.items = splice1(@, w.index)]

writtenSchema(v, w) ==
  written([f \in DOMAIN v |->
             IF f \in {"properties", "required"} THEN written(v[f], w) ELSE v[f]], w)

writtenRoute(v, w) ==
  written([f \in DOMAIN v |-> IF f = "responses" THEN written(v[f], w) ELSE v[f]], w)

writtenDocument(doc, w) ==
  written([f \in DOMAIN doc |->
             IF f = "schemas"
             THEN written(MapObject(doc.schemas.ref,
                    [i \in 1..Len(doc.schemas.entries) |->
                       Entry(doc.schemas.entries[i].k,
                             writtenSchema(doc.schemas.entries[i].v, w))]), w)
             ELSE IF f = "routes"
             THEN written(MapObject(doc.routes.ref,
                    [i \in 1..Len(doc.routes.entries) |->
                       Entry(doc.routes.entries[i].k,
                             writtenRoute(doc.routes.entries[i].v, w))]), w)
             ELSE doc[f]], w)

\* what a handler can reach while it runs: state.document, state.history
\* and its newDoc; a write goes to the object wherever it is referred to
write(world, w) ==
  [document |-> writtenDocument(world.document, w),
   history |-> [i \in 1..Len(world.history) |-> writtenDocument(world.history[i], w)],
   newDoc |-> writtenDocument(world.newDoc, w)]

\* const newDoc = cloneDocument(state.document)
heap_begin(state) ==
  [document |-> state.document,
   history |-> state.history,
   newDoc |-> heap_cloneDocument(state.document, state.documentVersion + 1, "new")]

\* the closing newHistory and set({...}) of a mutation handler
heap_commit(state, world, type, payload) ==
  set(state, [document |-> world.newDoc,
              history |-> Append(SubSeq(world.history, 1, state.historyIndex + 1),
                                 heap_cloneDocument(world.document,
                                                    state.documentVersion + 1, "snap")),
              historyIndex |-> state.historyIndex + 1,
              documentVersion |-> state.documentVersion + 1,
              commandLog |-> Append(state.commandLog, Command(type, payload))])

schemaOf(doc, id) == MapGet(doc.schemas.entries, id)

routeOf(doc, id) == MapGet(doc.routes.entries, id)

\* if (!updatedSchema.properties) updatedSchema.properties = new Map(), and
\* the same for required
ensured(world, schemaId, f, op) ==
  IF Has(schemaOf(world.newDoc, schemaId), f) THEN world
  ELSE write(world,
         FieldWrite(schemaOf(world.newDoc, schemaId).ref, f,
                    IF f = "properties"
                    THEN MapObject(NewRef(op, "literal", f, schemaId), <<>>)
                    ELSE ArrayObject(NewRef(op, "literal", f, schemaId), <<>>)))

heap_addFieldToSchema(state, schemaId, field) ==
  IF ~MapHas(state.document.schemas.entries, schemaId) THEN state
  ELSE IF schemaOf(state.document, schemaId).type # "object" THEN state
  ELSE
    With(heap_begin(state), LAMBDA w0 :
    With(ensured(w0, schemaId, "properties", state.documentVersion + 1), LAMBDA w1 :
    With(write(w1, MapSetWrite(schemaOf(w1.newDoc, schemaId).properties.ref,
                               field.name, field)), LAMBDA w2 :
    With(IF field.required
         THEN ensured(w2, schemaId, "required", state.documentVersion + 1)
         ELSE w2, LAMBDA w3 :
      heap_commit(state,
        IF field.required
           /\ ~includes(schemaOf(w3.newDoc, schemaId).required.items, field.name)
        THEN write(w3, PushWrite(schemaOf(w3.newDoc, schemaId).required.ref, field.name))
        ELSE w3,
        "ADD_FIELD", [schemaId |-> schemaId, field |-> field])))))

\* the rename branch of updateField, or the replacement of the field
fieldPut(world, schemaId, fieldName, updates, updatedField) ==
  IF Has(updates, "name") /\ updates.name # "" /\ updates.name # fieldName
  THEN write(write(world, MapDeleteWrite(schemaOf(world.newDoc, schemaId).properties.ref,
                                         fieldName)),
             MapSetWrite(schemaOf(world.newDoc, schemaId).properties.ref,
                         updates.name, updatedField))
  ELSE write(world, MapSetWrite(schemaOf(world.newDoc, schemaId).properties.ref,
                                fieldName, updatedField))

\* updatedSchema.required[idx] = updates.name of the rename branch
requiredRenamed(world, schemaId, fieldName, updates) ==
  IF /\ Has(updates, "name") /\ updates.name # "" /\ updates.name # fieldName
     /\ Has(schemaOf(world.newDoc, schemaId), "required")
     /\ indexOf(schemaOf(world.newDoc, schemaId).required.items, fieldName) # -1
  THEN write(world,
         AssignWrite(schemaOf(world.newDoc, schemaId).required.ref,
                     indexOf(schemaOf(world.newDoc, schemaId).required.items, fieldName),
                     updates.name))
  ELSE world

\* the push or splice of the required change, for the name the field has
requiredChanged(world, schemaId, name, required) ==
  IF required /\ indexOf(schemaOf(world.newDoc, schemaId).required.items, name) = -1
  THEN write(world, PushWrite(schemaOf(world.newDoc, schemaId).required.ref, name))
  ELSE IF ~required /\ indexOf(schemaOf(world.newDoc, schemaId).required.items, name) # -1
  THEN write(world,
         SpliceWrite(schemaOf(world.newDoc, schemaId).required.ref,
                     indexOf(schemaOf(world.newDoc, schemaId).required.items, name)))
  ELSE world

heap_updateField(state, schemaId, fieldName, updates) ==
  IF ~MapHas(state.document.schemas.entries, schemaId) THEN state
  ELSE IF ~Has(schemaOf(state.document, schemaId), "properties") THEN state
  ELSE IF ~MapHas(schemaOf(state.document, schemaId).properties.entries, fieldName) THEN state
  ELSE
    With(heap_begin(state), LAMBDA w0 :
    With(fieldPut(w0, schemaId, fieldName, updates,
                  updates @@ MapGet(schemaOf(state.document, schemaId).properties.entries,
                                    fieldName)), LAMBDA w1 :
    With(requiredRenamed(w1, schemaId, fieldName, updates), LAMBDA w2 :
    With(IF Has(updates, "required")
         THEN ensured(w2, schemaId, "required", state.documentVersion + 1)
         ELSE w2, LAMBDA w3 :
      heap_commit(state,
        IF Has(updates, "required")
        THEN requiredChanged(w3, schemaId,
               IF Has(updates, "name") /\ updates.name # "" THEN updates.name
               ELSE fieldName,
               updates.required)
        ELSE w3,
        "UPDATE_FIELD",
        [schemaId |-> schemaId, fieldName |-> fieldName, updates |-> updates])))))

heap_deleteField(state, schemaId, fieldName) ==
  IF ~MapHas(state.document.schemas.entries, schemaId) THEN state
  ELSE IF ~Has(schemaOf(state.document, schemaId), "properties") THEN state
  ELSE
    With(heap_begin(state), LAMBDA w0 :
    With(write(w0, MapDeleteWrite(schemaOf(w0.newDoc, schemaId).properties.ref, fieldName)),
         LAMBDA w1 :
      heap_commit(state,
        IF /\ Has(schemaOf(w1.newDoc, schemaId), "required")
           /\ indexOf(schemaOf(w1.newDoc, schemaId).required.items, fieldName) # -1
        THEN write(w1,
               SpliceWrite(schemaOf(w1.newDoc, schemaId).required.ref,
                           indexOf(schemaOf(w1.newDoc, schemaId).required.items,
                                   fieldName)))
        ELSE w1,
        "DELETE_FIELD", [schemaId |-> schemaId, fieldName |-> fieldName])))

\* updatedSchema = { ...schema, ...updates } is a new object that holds the
\* properties Map and the required array of state.document's schema
heap_updateSchema(state, id, updates) ==
  IF ~MapHas(state.document.schemas.entries, id) THEN state
  ELSE
    With(heap_begin(state), LAMBDA w0 :
      heap_commit(state,
        write(w0, MapSetWrite(w0.newDoc.schemas.ref, id,
                [ref |-> NewRef(state.documentVersion + 1, "literal", "schema", id)]
                @@ (IF Has(updates, "properties")
                    THEN [properties |->
                            MapObject(NewRef(state.documentVersion + 1, "literal",
                                             "properties", id), updates.properties)]
                    ELSE <<>>)
                @@ updates @@ schemaOf(state.document, id))),
        "UPDATE_SCHEMA", [id |-> id, updates |-> updates]))

heap_addResponse(state, routeId, statusCode, response) ==
  IF ~MapHas(state.document.routes.entries, routeId) THEN state
  ELSE
    With(heap_begin(state), LAMBDA w0 :
      heap_commit(state,
        write(w0, MapSetWrite(routeOf(w0.newDoc, routeId).responses.ref,
                              statusCode, response)),
        "ADD_RESPONSE",
        [routeId |-> routeId, statusCode |-> statusCode, response |-> response]))

heap_updateResponse(state, routeId, statusCode, updates) ==
  IF ~MapHas(state.document.routes.entries, routeId) THEN state
  ELSE IF ~MapHas(routeOf(state.document, routeId).responses.entries, statusCode) THEN state
  ELSE
    With(heap_begin(state), LAMBDA w0 :
      heap_commit(state,
        write(w0, MapSetWrite(routeOf(w0.newDoc, routeId).responses.ref, statusCode,
                updates @@ MapGet(routeOf(state.document, routeId).responses.entries,
                                  statusCode))),
        "UPDATE_RESPONSE",
        [routeId |-> routeId, statusCode |-> statusCode, updates |-> updates]))

\* the documents a session with object identity starts from: an object
\* schema with and without a properties Map
HeldDocuments ==
  {SampleDocument,
   [SampleDocument EXCEPT
      !.schemas = <<Entry("s1", [id |-> "s1", type |-> "object", name |-> "A"])>>]}

InitHeap ==
  /\ document \in {Held(doc, 0, "loaded") : doc \in HeldDocuments}
  /\ documentVersion = 0
  /\ history = <<>>
  /\ historyIndex = -1
  /\ commandLog = <<>>
  /\ trace = <<>>
  /\ validation = NoValidation
  /\ NoFile
  /\ NoHook

HeapAddFieldToSchema ==
  MayMutate /\ \E schemaId \in SchemaIds, field \in NewFields :
    CapStep(heap_addFieldToSchema(State, schemaId, field))

HeapUpdateField ==
  MayMutate /\ \E schemaId \in SchemaIds, fieldName \in FieldNames, updates \in FieldUpdates :
    CapStep(heap_updateField(State, schemaId, fieldName, updates))

HeapDeleteField ==
  MayMutate /\ \E schemaId \in SchemaIds, fieldName \in FieldNames :
    CapStep(heap_deleteField(State, schemaId, fieldName))

HeapUpdateSchema ==
  MayMutate /\ \E id \in SchemaIds, updates \in SchemaUpdates :
    CapStep(heap_updateSchema(State, id, updates))

HeapAddResponse ==
  MayMutate /\ \E routeId \in RouteIds, statusCode \in StatusCodes, response \in NewResponses :
    CapStep(heap_addResponse(State, routeId, statusCode, response))

HeapUpdateResponse ==
  MayMutate /\ \E routeId \in RouteIds, statusCode \in StatusCodes, updates \in ResponseUpdates :
    CapStep(heap_updateResponse(State, routeId, statusCode, updates))

\* undo and redo hand a snapshot object of the history to the store as it is
HeapUndo == MayMove /\ CapStep(undo(State))

HeapRedo == MayMove /\ CapStep(redo(State))

NextHeap ==
  \/ HeapAddFieldToSchema \/ HeapUpdateField \/ HeapDeleteField \/ HeapUpdateSchema
  \/ HeapAddResponse \/ HeapUpdateResponse
  \/ HeapUndo \/ HeapRedo

SpecHeap == InitHeap /\ [][NextHeap]_vars

\* a mutation took effect in the step
Mutated == Len(commandLog') = Len(commandLog) + 1

====
